---------------------------- MODULE Spec2Model ----------------------------
(***************************************************************************)
(* Retrieval-and-answer pipeline of ChatBot_IALatex (backend):             *)
(*   services/ai_providers.py    provider stream clients                   *)
(*   app/routers/chat.py         /chat/search answer pipeline              *)
(*   services/search_engine.py   generate_answer                           *)
(*   services/embedding_system.py two-tier embedding cache                 *)
(*                                                                         *)
(* The specifications of the module:                                       *)
(*   SpecGemini  the Gemini brace-depth scanner fed byte chunks            *)
(*   Spec        one /chat/search request, provider streams at the level   *)
(*               of upstream lines / objects                               *)
(*   SpecEmb     AdvancedEmbeddingSystem.create_embeddings and its caches  *)
(*   SpecSearch  one SearchEngine.hybrid_search call on a table of chunks  *)
(*   SpecHighlight  one SearchEngine._highlight_relevant_sentences call    *)
(*   SpecLoop    concurrent /chat/search requests on one event loop        *)
(*   SpecFactory successive ProviderFactory.get_provider calls             *)
(*   SpecTiers   create_embeddings in two processes that share Redis       *)
(*   SpecUsage   concurrent answer streams of one user, token accounting   *)
(*   SpecCancel  a provider stream whose consumer stops iterating          *)
(*   SpecThreshold  the highlighter on texts around the 0.4 threshold      *)
(*   SpecAccounting  the amount each provider reports for one generation   *)
(*   SpecDeps    the service singletons of the API process                 *)
(***************************************************************************)
EXTENDS Integers, Sequences, FiniteSets, TLC

VARIABLES
  \* --- GeminiProvider.generate_stream, byte level ---
  payload,        \* the bytes the upstream sends on an HTTP-200 response
  pos,            \* number of payload bytes already delivered by aiter_bytes()
  on_token_usage, \* TRUE when the caller passed a callback
  scan,           \* locals of the scanner: buffer, depth, in_string, escape, log, raised;
                  \* scanned and attempts record where json.loads was called
  gem_pc,         \* "streaming" | "done"
  \* --- one /chat/search request (chat.py search_endpoint) ---
  request,        \* source_files, search_results, api_key, provider of the user
  pc,             \* where the request is
  ai_provider,    \* the provider class ProviderFactory.get_provider returned
  status_code,    \* response.status_code, 0 before there is a response
  nlines,         \* upstream lines / objects read so far
  yielded,        \* the items generate_answer has yielded
  usage_calls,    \* the amounts passed to on_token_usage, in order
  current_user,   \* token_usage in memory and as committed, errors logged
  response,       \* the chunks of the StreamingResponse body
  calls,          \* how often generate_answer and generate_stream were entered
  sent_texts,     \* the text fragments the upstream has delivered
  failures,       \* what went wrong so far: upstream, accounting
  \* --- one AdvancedEmbeddingSystem (embedding_system.py) ---
  lru_cache,      \* self._lru_cache: key -> embedding
  lru_keys,       \* self._lru_keys: the keys, least recently used first
  redis,          \* the shared tier: key -> json.dumps(embedding)
  redis_enabled,  \* self.redis_enabled
  recency,        \* the cached keys by last access, oldest first
  inserted,       \* the cached keys by insertion, oldest first
  emb_pc,         \* "idle" | "called" | "repeated"
  obs1,           \* what the last create_embeddings call did
  obs2,           \* what the same call, made again, did
  \* --- one SearchEngine.hybrid_search call (search_engine.py) ---
  search_in,      \* owner_id, source_files, top_k, whether a re-ranker is loaded
  search_out,     \* the list hybrid_search returned
  search_pc,      \* "idle" | "called" | "returned"
  \* --- one call of a function without side effects ---
  fn_call,        \* the function called and its arguments
  fn_result,      \* what the call returned or raised
  fn_pc,          \* "idle" | "called" | "returned"
  \* --- concurrent requests on one asyncio event loop ---
  task_pc,        \* where the coroutine of each request is
  on_loop,        \* the request whose coroutine holds the loop thread, 0 if none
  \* --- two processes with their own embedding system and one Redis ---
  proc,           \* per process: its embedding system and its create_embeddings call
  shared_redis,   \* the shared tier: cache key -> stored JSON text
  \* --- concurrent answer streams of one user ---
  users_row,      \* the user's row in the database: token_usage as committed
  sessions,       \* per stream: its Session's User object and its progress
  \* --- a provider stream whose consumer goes away ---
  agen,           \* the generator chain, its HTTP response and client
  \* --- the service objects of the API process ---
  deps            \* the lru_cache of each provider function, the objects made

gemVars == << payload, pos, on_token_usage, scan, gem_pc >>
chatVars ==
  << request, pc, ai_provider, status_code, nlines, yielded, usage_calls,
     current_user, response, calls, sent_texts, failures >>

embVars ==
  << lru_cache, lru_keys, redis, redis_enabled, recency, inserted, emb_pc,
     obs1, obs2 >>

searchVars == << search_in, search_out, search_pc >>

pureVars == << fn_call, fn_result, fn_pc >>

loopVars == << task_pc, on_loop >>

tierVars == << proc, shared_redis >>

usageVars == << users_row, sessions >>

cancelVars == << agen >>

depVars == << deps >>

vars == << gemVars, chatVars, embVars, searchVars, pureVars, loopVars, tierVars, usageVars, cancelVars, depVars >>

----------------------------------------------------------------------------
(* Generic helpers                                                         *)

\* index of the first element of s equal to c, 0 when there is none (str.find + 1)
Find(s, c) ==
  LET at == { i \in 1..Len(s) : s[i] = c } IN
  IF at = {} THEN 0 ELSE CHOOSE i \in at : \A j \in at : i <= j

\* The loops over bytes and characters below are left folds over a range
\* lo..hi.  A range is split in halves and the left half is evaluated first
\* (the test `left = left` only fixes that order), which keeps TLC's
\* evaluation shallow; the result is that of the sequential loop.

----------------------------------------------------------------------------
(* Bytes and bytes.decode("utf-8")                                         *)
(* A byte is a one-character string when it is ASCII; the two non-ASCII    *)
(* bytes of the model are the UTF-8 encoding C3 A9 of U+00E9.              *)

LeadBytes == { "xC3" }
ContBytes == { "xA9" }
IsAscii(b) == b \notin LeadBytes /\ b \notin ContBytes

\* the character encoded by a two-byte sequence
Char2(lead, cont) == "U+00E9"

\* the decoder after one more byte; lead is the pending lead byte, "" if none
DecodeByte(d, b) ==
  IF ~d.ok THEN d
  ELSE IF d.lead # ""
       THEN IF b \in ContBytes
            THEN [d EXCEPT !.chars = Append(d.chars, Char2(d.lead, b)), !.lead = ""]
            ELSE [d EXCEPT !.ok = FALSE]
  ELSE IF IsAscii(b) THEN [d EXCEPT !.chars = Append(d.chars, b)]
  ELSE IF b \in LeadBytes THEN [d EXCEPT !.lead = b]
  ELSE [d EXCEPT !.ok = FALSE]

\* strict UTF-8 decoding of one chunk: a lead byte needs its continuation byte
\* inside the same chunk, a continuation byte with no lead is invalid
RECURSIVE DecodeRange(_, _, _, _)
DecodeRange(d, bytes, lo, hi) ==
  IF lo > hi THEN d
  ELSE IF lo = hi THEN DecodeByte(d, bytes[lo])
  ELSE LET mid == (lo + hi) \div 2
           left == DecodeRange(d, bytes, lo, mid)
       IN IF left = left THEN DecodeRange(left, bytes, mid + 1, hi) ELSE d

Utf8Decode(bytes) ==
  LET d == DecodeRange([ok |-> TRUE, chars |-> << >>, lead |-> ""],
                       bytes, 1, Len(bytes))
  IN [ok |-> d.ok /\ d.lead = "", chars |-> d.chars]

----------------------------------------------------------------------------
(* json.loads on a character sequence.  The grammar covers objects,        *)
(* arrays, strings with backslash escapes and non-negative integers        *)
(* without insignificant whitespace; every other text is a JSONDecodeError.*)

Digits == { "0", "1", "2", "3", "4", "5", "6", "7", "8", "9" }
DigitVal(c) ==
  CASE c = "0" -> 0 [] c = "1" -> 1 [] c = "2" -> 2 [] c = "3" -> 3 [] c = "4" -> 4
    [] c = "5" -> 5 [] c = "6" -> 6 [] c = "7" -> 7 [] c = "8" -> 8 [] c = "9" -> 9

EscapeChars == { "\"", "\\", "/", "n" }
Unescape(c) == IF c = "n" THEN "\n" ELSE c
ControlChars == { "\n" }

ParseFail == [ok |-> FALSE, v |-> [t |-> "none"], i |-> 0]
ParseOk(v, i) == [ok |-> TRUE, v |-> v, i |-> i]

\* s[j..] inside a string literal whose opening quote has been consumed
RECURSIVE ParseStringBody(_, _, _)
ParseStringBody(s, j, acc) ==
  IF j > Len(s) THEN ParseFail
  ELSE IF s[j] = "\"" THEN ParseOk([t |-> "str", s |-> acc], j + 1)
  ELSE IF s[j] = "\\"
       THEN IF j + 1 <= Len(s) /\ s[j + 1] \in EscapeChars
            THEN ParseStringBody(s, j + 2, Append(acc, Unescape(s[j + 1])))
            ELSE ParseFail
  ELSE IF s[j] \in ControlChars THEN ParseFail
  ELSE ParseStringBody(s, j + 1, Append(acc, s[j]))

RECURSIVE ParseDigits(_, _, _)
ParseDigits(s, j, n) ==
  IF j <= Len(s) /\ s[j] \in Digits
  THEN ParseDigits(s, j + 1, 10 * n + DigitVal(s[j]))
  ELSE ParseOk([t |-> "num", n |-> n], j)

ParseNumber(s, i) ==
  IF s[i] = "0"
  THEN IF i + 1 <= Len(s) /\ s[i + 1] \in Digits THEN ParseFail
       ELSE ParseOk([t |-> "num", n |-> 0], i + 1)
  ELSE ParseDigits(s, i, 0)

RECURSIVE ParseValue(_, _)
RECURSIVE ParseMembers(_, _, _)
RECURSIVE ParseElements(_, _, _)

\* members of an object after "{" or ","; acc is the list of << key, value >>
ParseMembers(s, i, acc) ==
  IF i > Len(s) \/ s[i] # "\"" THEN ParseFail
  ELSE LET k == ParseStringBody(s, i + 1, << >>) IN
       IF ~k.ok \/ k.i > Len(s) \/ s[k.i] # ":" THEN ParseFail
       ELSE LET v == ParseValue(s, k.i + 1) IN
            IF ~v.ok \/ v.i > Len(s) THEN ParseFail
            ELSE LET acc2 == Append(acc, << k.v.s, v.v >>) IN
                 IF s[v.i] = "," THEN ParseMembers(s, v.i + 1, acc2)
                 ELSE IF s[v.i] = "}" THEN ParseOk([t |-> "obj", m |-> acc2], v.i + 1)
                 ELSE ParseFail

ParseElements(s, i, acc) ==
  LET v == ParseValue(s, i) IN
  IF ~v.ok \/ v.i > Len(s) THEN ParseFail
  ELSE LET acc2 == Append(acc, v.v) IN
       IF s[v.i] = "," THEN ParseElements(s, v.i + 1, acc2)
       ELSE IF s[v.i] = "]" THEN ParseOk([t |-> "arr", a |-> acc2], v.i + 1)
       ELSE ParseFail

ParseValue(s, i) ==
  IF i > Len(s) THEN ParseFail
  ELSE IF s[i] = "{"
       THEN IF i + 1 <= Len(s) /\ s[i + 1] = "}"
            THEN ParseOk([t |-> "obj", m |-> << >>], i + 2)
            ELSE ParseMembers(s, i + 1, << >>)
  ELSE IF s[i] = "["
       THEN IF i + 1 <= Len(s) /\ s[i + 1] = "]"
            THEN ParseOk([t |-> "arr", a |-> << >>], i + 2)
            ELSE ParseElements(s, i + 1, << >>)
  ELSE IF s[i] = "\"" THEN ParseStringBody(s, i + 1, << >>)
  ELSE IF s[i] \in Digits THEN ParseNumber(s, i)
  ELSE ParseFail

\* json.loads(text): one value spanning the whole text, else JSONDecodeError
json_loads(text) ==
  LET r == ParseValue(text, 1) IN
  IF r.ok /\ r.i = Len(text) + 1 THEN r ELSE ParseFail

\* dict access: `key in d` and d[key] (the last duplicate wins, as in a dict)
Has(obj, key) == obj.t = "obj" /\ \E j \in 1..Len(obj.m) : obj.m[j][1] = key
Get(obj, key) ==
  LET j == CHOOSE j \in 1..Len(obj.m) :
             /\ obj.m[j][1] = key
             /\ \A l \in (j + 1)..Len(obj.m) : obj.m[l][1] # key
  IN obj.m[j][2]

----------------------------------------------------------------------------
(* Key names of the Gemini wire format                                     *)

K_candidates == << "c", "a", "n", "d", "i", "d", "a", "t", "e", "s" >>
K_content == << "c", "o", "n", "t", "e", "n", "t" >>
K_parts == << "p", "a", "r", "t", "s" >>
K_text == << "t", "e", "x", "t" >>
K_usageMetadata ==
  << "u", "s", "a", "g", "e", "M", "e", "t", "a", "d", "a", "t", "a" >>
K_totalTokenCount ==
  << "t", "o", "t", "a", "l", "T", "o", "k", "e", "n", "C", "o", "u", "n", "t" >>


\* a JSON string literal holding the characters cs, and the wire objects
Quoted(cs) == << "\"" >> \o cs \o << "\"" >>
TextObject(lit) ==
  << "{" >> \o Quoted(K_candidates) \o << ":", "[", "{" >> \o Quoted(K_content)
    \o << ":", "{" >> \o Quoted(K_parts) \o << ":", "[", "{" >> \o Quoted(K_text)
    \o << ":" >> \o Quoted(lit) \o << "}", "]", "}", "}", "]", "}" >>
UsageObject(digits) ==
  << "{" >> \o Quoted(K_usageMetadata) \o << ":", "{" >> \o Quoted(K_totalTokenCount)
    \o << ":" >> \o digits \o << "}", "}" >>

\* the upstream payloads of the model (bytes of HTTP-200 bodies):
\*  the streamed JSON array of Gemini with one object, whose text is non-ASCII;
\*  a text holding braces and an escaped quote, then a usage object, back to back
PayloadArray ==
  << "[" >> \o TextObject(<< "xC3", "xA9" >>) \o << "]" >>
PayloadBraces ==
  TextObject(<< "}", "\\", "\"", "{" >>) \o UsageObject(<< "7" >>)
\*  two text objects back to back: a brace, and an escaped backslash that
\*  ends its string
PayloadEscapes ==
  TextObject(<< "{" >>) \o TextObject(<< "\\", "\\" >>)
\*  a text holding a brace and a non-ASCII character
PayloadBraceAccent == TextObject(<< "{", "xC3", "xA9" >>)
\*  a brace-balanced object that is not JSON, then a text object
PayloadInvalidFirst == << "{", "x", "}" >> \o TextObject(<< "a" >>)
\*  a stray closing brace, then a text object
PayloadStrayBrace == << "}" >> \o TextObject(<< "a" >>)
Payloads ==
  { PayloadArray, PayloadBraces, PayloadEscapes, PayloadBraceAccent,
    PayloadInvalidFirst, PayloadStrayBrace }

----------------------------------------------------------------------------
(* GeminiProvider.generate_stream: what one parsed object makes the        *)
(* generator do (ai_providers.py 163-173).  An entry of the log is a       *)
(* yielded text, an on_token_usage call, or the exception that left the    *)
(* try block.                                                              *)

Yield(text) == [ev |-> "yield", text |-> text]
UsageCall(n) == [ev |-> "usage", n |-> n]
Raise == [ev |-> "raise"]

IsRaise(log) == Len(log) > 0 /\ log[Len(log)].ev = "raise"

\* for part in parts: if "text" in part: yield part["text"]
RECURSIVE PartEvents(_, _)
PartEvents(parts, j) ==
  IF j > Len(parts) THEN << >>
  ELSE IF parts[j].t # "obj" THEN << Raise >>
  ELSE IF Has(parts[j], K_text) /\ Get(parts[j], K_text).t = "str"
       THEN << Yield(Get(parts[j], K_text).s) >> \o PartEvents(parts, j + 1)
  ELSE IF Has(parts[j], K_text) THEN << Raise >>
  ELSE PartEvents(parts, j + 1)

\* for candidate in candidates: if "content" in candidate and "parts" in content
RECURSIVE CandidateEvents(_, _)
CandidateEvents(cands, j) ==
  IF j > Len(cands) THEN << >>
  ELSE IF cands[j].t # "obj" THEN << Raise >>
  ELSE IF ~Has(cands[j], K_content) THEN CandidateEvents(cands, j + 1)
  ELSE LET content == Get(cands[j], K_content) IN
       IF content.t # "obj" THEN << Raise >>
       ELSE IF ~Has(content, K_parts) THEN CandidateEvents(cands, j + 1)
       ELSE IF Get(content, K_parts).t # "arr" THEN << Raise >>
       ELSE LET e == PartEvents(Get(content, K_parts).a, 1) IN
            IF IsRaise(e) THEN e ELSE e \o CandidateEvents(cands, j + 1)

\* if "usageMetadata" in chunk_data and on_token_usage: ... if total_tokens > 0
GeminiUsageEvents(chunk_data, callback) ==
  IF ~(Has(chunk_data, K_usageMetadata) /\ callback) THEN << >>
  ELSE LET um == Get(chunk_data, K_usageMetadata) IN
       IF um.t # "obj" THEN << Raise >>
       ELSE IF ~Has(um, K_totalTokenCount) THEN << >>
       ELSE IF Get(um, K_totalTokenCount).t # "num" THEN << Raise >>
       ELSE IF Get(um, K_totalTokenCount).n > 0
            THEN << UsageCall(Get(um, K_totalTokenCount).n) >>
       ELSE << >>

\* A value of a type the code does not expect (shapes no payload of the
\* model takes) is taken to raise inside the try block.
GeminiObjectEvents(chunk_data, callback) ==
  LET c == IF ~Has(chunk_data, K_candidates) THEN << >>
           ELSE IF Get(chunk_data, K_candidates).t # "arr" THEN << Raise >>
           ELSE CandidateEvents(Get(chunk_data, K_candidates).a, 1)
  IN IF IsRaise(c) THEN c ELSE c \o GeminiUsageEvents(chunk_data, callback)

----------------------------------------------------------------------------
(* The brace-depth scanner (ai_providers.py 137-186)                       *)

ScanInit ==
  [buffer |-> << >>, depth |-> 0, in_string |-> FALSE, escape |-> FALSE,
   log |-> << >>, raised |-> FALSE, scanned |-> 0, attempts |-> << >>]

\* the `if depth == 0:` block: parse the buffer from its first "{"
TryParse(st, callback) ==
  LET start_index == Find(st.buffer, "{") IN
  IF start_index = 0 THEN [st EXCEPT !.buffer = << >>]
  ELSE LET r == json_loads(SubSeq(st.buffer, start_index, Len(st.buffer)))
           tried == [st EXCEPT !.attempts = Append(st.attempts, st.scanned)]
       IN
       IF ~r.ok THEN tried                         \* except JSONDecodeError: pass
       ELSE LET e == GeminiObjectEvents(r.v, callback) IN
            IF IsRaise(e)
            THEN [tried EXCEPT !.log = st.log \o SubSeq(e, 1, Len(e) - 1),
                               !.raised = TRUE]
            ELSE [tried EXCEPT !.log = st.log \o e, !.buffer = << >>]

\* one iteration of `for char in text_chunk:`
ScanChar(st, char, callback) ==
  LET b == [st EXCEPT !.buffer = Append(st.buffer, char),
                      !.scanned = st.scanned + 1] IN
  IF st.raised THEN st                    \* the generator has left the loop
  ELSE IF ~b.in_string
  THEN IF char = "{" THEN [b EXCEPT !.depth = b.depth + 1]
       ELSE IF char = "}"
            THEN LET d == [b EXCEPT !.depth = b.depth - 1] IN
                 IF d.depth = 0 THEN TryParse(d, callback) ELSE d
       ELSE IF char = "\"" THEN [b EXCEPT !.in_string = TRUE]
       ELSE b
  ELSE IF b.escape THEN [b EXCEPT !.escape = FALSE]
       ELSE IF char = "\\" THEN [b EXCEPT !.escape = TRUE]
       ELSE IF char = "\"" THEN [b EXCEPT !.in_string = FALSE]
       ELSE b

\* `for char in text_chunk:` over chars[lo..hi]
RECURSIVE ScanRange(_, _, _, _, _)
ScanRange(st, chars, lo, hi, callback) ==
  IF lo > hi THEN st
  ELSE IF lo = hi THEN ScanChar(st, chars[lo], callback)
  ELSE LET mid == (lo + hi) \div 2
           left == ScanRange(st, chars, lo, mid, callback)
       IN IF left = left THEN ScanRange(left, chars, mid + 1, hi, callback) ELSE st

ScanChars(st, chars, callback) == ScanRange(st, chars, 1, Len(chars), callback)

\* one iteration of `async for chunk in response.aiter_bytes():`
\* a chunk that does not decode is skipped whole (except UnicodeDecodeError: continue)
FeedChunk(st, chunk, callback) ==
  LET text_chunk == Utf8Decode(chunk) IN
  IF ~text_chunk.ok THEN st
  ELSE ScanChars(st, text_chunk.chars, callback)

\* what the consumer of the generator has seen
RECURSIVE Select(_, _)
Select(log, kind) ==
  IF log = << >> THEN << >>
  ELSE IF log[1].ev = kind THEN << log[1] >> \o Select(Tail(log), kind)
  ELSE Select(Tail(log), kind)
Fragments(log) == Select(log, "yield")
UsageCalls(log) == Select(log, "usage")

----------------------------------------------------------------------------
(* SpecGemini: one HTTP-200 response delivered in arbitrary chunks         *)

\* what a create_embeddings call leaves for inspection
EmptyObs ==
  [texts |-> << >>, results |-> << >>, sources |-> << >>, model_calls |-> 0,
   evictions |-> << >>, raised |-> FALSE]

\* no abandoned stream, no service object
RestIdle ==
  /\ agen = << >>
  /\ deps = << >>

\* no concurrent answer stream
UsageIdle ==
  /\ users_row = [token_usage |-> 0, initial |-> 0]
  /\ sessions = << >>

\* no process of the two-process model
TiersIdle ==
  /\ proc = << >>
  /\ shared_redis = << >>

\* no request on the event loop
LoopIdle ==
  /\ task_pc = << >>
  /\ on_loop = 0

\* no pure call
PureIdle ==
  /\ fn_call = [fn |-> "none"]
  /\ fn_result = [raised |-> FALSE, value |-> << >>]
  /\ fn_pc = "idle"

\* no hybrid_search call
SearchIdle ==
  /\ search_in = [query_text |-> << >>, owner_id |-> 0,
                  source_files |-> [given |-> FALSE, files |-> << >>],
                  top_k |-> 0, reranker |-> FALSE]
  /\ search_out = [results |-> << >>, semantic_results |-> << >>,
                   keyword_results |-> << >>, combined_results |-> << >>,
                   reranked |-> FALSE]
  /\ search_pc = "idle"

\* a fresh embedding system, shared tier off
EmbIdle ==
  /\ lru_cache = << >>
  /\ lru_keys = << >>
  /\ redis = << >>
  /\ redis_enabled = FALSE
  /\ recency = << >>
  /\ inserted = << >>
  /\ emb_pc = "idle"
  /\ obs1 = EmptyObs
  /\ obs2 = EmptyObs

\* the request side, before any request
ChatIdle ==
  /\ request = [source_files |-> << >>, search_results |-> << >>,
                api_key |-> FALSE, provider |-> ""]
  /\ pc = "idle"
  /\ ai_provider = ""
  /\ status_code = 0
  /\ nlines = 0
  /\ yielded = << >>
  /\ usage_calls = << >>
  /\ current_user = [token_usage |-> 0, committed |-> 0, errors_logged |-> 0]
  /\ response = << >>
  /\ calls = [generate_answer |-> 0, generate_stream |-> 0]
  /\ sent_texts = << >>
  /\ failures = [upstream |-> FALSE, accounting |-> FALSE, body_read |-> FALSE,
                 texts_before |-> 0, malformed |-> FALSE,
                 done_read |-> FALSE, items_at_done |-> 0, usage_at_done |-> 0]

GeminiInit ==
  /\ payload \in Payloads
  /\ on_token_usage \in BOOLEAN
  /\ pos = 0
  /\ scan = ScanInit
  /\ gem_pc = "streaming"
  /\ ChatIdle
  /\ EmbIdle
  /\ SearchIdle
  /\ PureIdle
  /\ LoopIdle
  /\ TiersIdle
  /\ UsageIdle
  /\ RestIdle

\* aiter_bytes() hands over the next n bytes
RecvChunk ==
  /\ gem_pc = "streaming"
  /\ pos < Len(payload)
  /\ \E n \in 1..(Len(payload) - pos) :
       /\ scan' = FeedChunk(scan, SubSeq(payload, pos + 1, pos + n), on_token_usage)
       /\ pos' = pos + n
  /\ gem_pc' = IF scan'.raised THEN "done" ELSE "streaming"
  /\ UNCHANGED << payload, on_token_usage, chatVars, embVars, searchVars, pureVars, loopVars, tierVars, usageVars, cancelVars, depVars >>

\* the response body is exhausted and the generator returns
StreamEnd ==
  /\ gem_pc = "streaming"
  /\ pos = Len(payload)
  /\ gem_pc' = "done"
  /\ UNCHANGED << payload, pos, on_token_usage, scan, chatVars, embVars, searchVars, pureVars, loopVars, tierVars, usageVars, cancelVars, depVars >>

GeminiNext == RecvChunk \/ StreamEnd

SpecGemini == GeminiInit /\ [][GeminiNext]_vars

\* the same payload arriving in a single chunk
WholePayload == FeedChunk(ScanInit, payload, on_token_usage)

(* C1: for every payload and every split of it into consecutive chunks,   *)
(* generate_stream yields the same text fragments and makes the same      *)
(* on_token_usage calls as when the payload arrives in one chunk.         *)
C1_ChunkingIndependent ==
  gem_pc = "done" =>
    /\ Fragments(scan.log) = Fragments(WholePayload.log)
    /\ UsageCalls(scan.log) = UsageCalls(WholePayload.log)


(***************************************************************************)
(* The provider streams at line level and the /chat/search request          *)
(***************************************************************************)

MaxLines == 3

\* ---- the items a provider's generate_stream yields ----
Item(kind, provider, status, text) ==
  [kind |-> kind, provider |-> provider, status |-> status, text |-> text]

TextItem(provider, text) == Item("text", provider, 0, text)

\* f"Error al conectar con ...: {response.status_code}"
HttpErrorItem(provider, status) ==
  Item("http_error", provider, status,
       IF provider = "ollama"
       THEN << "Error de Ollama: {status_code}. Esta Ollama ejecutandose?" >>
       ELSE << "Error al conectar con ", provider, ": {status_code}" >>)

\* f"Modelo '{model}' no encontrado. Ejecuta: ollama pull {model}"
ModelNotFoundItem(model) ==
  Item("model_not_found", "ollama", 0,
       << "Modelo '", model, "' no encontrado. Ejecuta: ollama pull ", model >>)

\* the message each except clause yields
ExceptItem(provider, kind) ==
  Item(kind, provider, 0,
       CASE kind = "ollama_unreachable" -> << "No se puede conectar a Ollama." >>
         [] kind = "ollama_timeout" -> << "Tiempo de espera agotado." >>
         [] kind = "ollama_error" -> << "Ocurrio un error con Ollama." >>
         [] OTHER -> << "Ocurrio un error de conexion con ", provider, "." >>)

NoApiKeyItem ==
  Item("no_api_key", "", 0, << "Por favor, configura tu API Key" >>)

ErrorKinds ==
  { "http_error", "model_not_found", "connection_error",
    "ollama_unreachable", "ollama_timeout", "ollama_error" }

\* ---- exceptions and the except clauses of each generate_stream ----
\* a class tree in which cancellation and generator exit are Exceptions
ExcParent_ExitIsException ==
  [ ConnectError |-> "TransportError", ConnectTimeout |-> "TimeoutException",
    ReadTimeout |-> "TimeoutException", ReadError |-> "TransportError",
    TimeoutException |-> "TransportError", TransportError |-> "Exception",
    SQLAlchemyError |-> "Exception", TypeError |-> "Exception",
    Exception |-> "BaseException", CancelledError |-> "Exception",
    GeneratorExit |-> "Exception" ]

ExcParent ==
  [ ConnectError |-> "TransportError", ConnectTimeout |-> "TimeoutException",
    ReadTimeout |-> "TimeoutException", ReadError |-> "TransportError",
    TimeoutException |-> "TransportError", TransportError |-> "Exception",
    SQLAlchemyError |-> "Exception", TypeError |-> "Exception",
    Exception |-> "BaseException", CancelledError |-> "BaseException",
    GeneratorExit |-> "BaseException" ]

RECURSIVE IsSubclass(_, _)
IsSubclass(exc, cls) ==
  \/ exc = cls
  \/ exc \in DOMAIN ExcParent /\ IsSubclass(ExcParent[exc], cls)

\* except clauses without the final catch-all
Handlers_NoCatchAll(provider) ==
  IF provider = "ollama"
  THEN << << "ConnectError", "ollama_unreachable" >>,
          << "TimeoutException", "ollama_timeout" >> >>
  ELSE << << "Exception", "connection_error" >> >>

Handlers(provider) ==
  IF provider = "ollama"
  THEN << << "ConnectError", "ollama_unreachable" >>,
          << "TimeoutException", "ollama_timeout" >>,
          << "Exception", "ollama_error" >> >>
  ELSE << << "Exception", "connection_error" >> >>

\* the first except clause that matches, "" when none does
RECURSIVE Catch(_, _, _)
Catch(handlers, j, exc) ==
  IF j > Len(handlers) THEN ""
  ELSE IF IsSubclass(exc, handlers[j][1]) THEN handlers[j][2]
  ELSE Catch(handlers, j + 1, exc)

ConnectFailures == { "ConnectError", "ConnectTimeout" }
StreamFailures == { "ReadTimeout", "ReadError" }

\* ---- ProviderFactory ----
ProviderClasses == { "gemini", "openai", "anthropic", "cerebras", "ollama" }

\* str.lower() on the provider ids used here
Lower(id) ==
  CASE id \in { "GEMINI", "Gemini" } -> "gemini"
    [] id \in { "OpenAI", "OPENAI" } -> "openai"
    [] id = "Anthropic" -> "anthropic"
    [] id = "CEREBRAS" -> "cerebras"
    [] id = "oLLaMa" -> "ollama"
    [] id = "Mistral" -> "mistral"
    [] id = " Gemini" -> " gemini"
    [] OTHER -> id

\* a lookup of the id as given
get_provider_CaseSensitive(provider_id) ==
  IF provider_id \in ProviderClasses THEN provider_id ELSE "gemini"

\* the class whose instance ProviderFactory.get_provider returns
get_provider(provider_id) ==
  IF Lower(provider_id) \in ProviderClasses THEN Lower(provider_id)
  ELSE "gemini"

default_model(provider) ==
  CASE provider = "gemini" -> "gemini-2.5-flash"
    [] provider = "openai" -> "gpt-4o-mini"
    [] provider = "anthropic" -> "claude-3-5-sonnet-20241022"
    [] provider = "cerebras" -> "llama-3.3-70b"
    [] provider = "ollama" -> "qwen2.5:3b"

\* a status check that lets client errors through
IsErrorStatus_ServerErrorsOnly(status) == status >= 500

IsErrorStatus(status) == status # 200


\* ---- what one upstream line makes each provider do ----
Break == [ev |-> "break"]

Absent == 0 - 1

\* OpenAI and Cerebras: server-sent events of chat.completion chunks
ChatCompletionLine(prefix, body, choices, usage) ==
  [prefix |-> prefix, body |-> body, choices |-> choices, usage |-> usage]

Delta(has_content, content) ==
  [has_content |-> has_content, content |-> content]

OpenAILines ==
  { ChatCompletionLine(FALSE, "", << >>, Absent),
    ChatCompletionLine(TRUE, "[DONE]", << >>, Absent),
    ChatCompletionLine(TRUE, "{not json", << >>, Absent),
    ChatCompletionLine(TRUE, "json", << Delta(TRUE, << "a" >>) >>, Absent),
    ChatCompletionLine(TRUE, "json", << Delta(FALSE, << >>) >>, 5),
    ChatCompletionLine(TRUE, "json", << Delta(TRUE, << "b" >>) >>, 0) }

RECURSIVE ChoiceEvents(_, _)
ChoiceEvents(choices, j) ==
  IF j > Len(choices) THEN << >>
  ELSE (IF choices[j].has_content THEN << Yield(choices[j].content) >>
        ELSE << >>) \o ChoiceEvents(choices, j + 1)

OpenAIEvents(line, callback) ==
  IF ~line.prefix THEN << >>
  ELSE IF line.body = "[DONE]" THEN << Break >>
  ELSE IF line.body # "json" THEN << >>
  ELSE ChoiceEvents(line.choices, 1)
       \o (IF line.usage # Absent /\ callback /\ line.usage > 0
           THEN << UsageCall(line.usage) >> ELSE << >>)

CerebrasEvents(line, callback) ==
  IF ~line.prefix THEN << >>
  ELSE IF line.body = "[DONE]" THEN << Break >>
  ELSE IF line.body # "json" THEN << >>
  ELSE ChoiceEvents(line.choices, 1)
       \o (IF line.usage # Absent /\ callback /\ line.usage > 0
           THEN << UsageCall(line.usage) >> ELSE << >>)

\* Anthropic: server-sent events of typed messages
AnthropicLine(prefix, body, type, delta_type, text, output_tokens) ==
  [prefix |-> prefix, body |-> body, type |-> type,
   delta_type |-> delta_type, text |-> text, output_tokens |-> output_tokens]

AnthropicLines ==
  { AnthropicLine(FALSE, "", "", "", << >>, Absent),
    AnthropicLine(TRUE, "[DONE]", "", "", << >>, Absent),
    AnthropicLine(TRUE, "json", "message_start", "", << >>, Absent),
    AnthropicLine(TRUE, "json", "content_block_delta", "text_delta",
                  << "a" >>, Absent),
    AnthropicLine(TRUE, "json", "content_block_delta", "input_json_delta",
                  << "b" >>, Absent),
    AnthropicLine(TRUE, "json", "message_delta", "", << >>, 5),
    AnthropicLine(TRUE, "json", "message_delta", "", << >>, Absent) }

AnthropicEvents(line, callback) ==
  IF ~line.prefix THEN << >>
  ELSE IF line.body # "json" THEN << >>
  ELSE IF line.type = "content_block_delta"
  THEN (IF line.delta_type = "text_delta" THEN << Yield(line.text) >>
        ELSE << >>)
  ELSE IF line.type = "message_delta"
  THEN (IF callback /\ line.output_tokens # Absent
        THEN << UsageCall(line.output_tokens) >> ELSE << >>)
  ELSE << >>

\* Ollama: one JSON object per line
OllamaLine(body, has_response, resp, done, eval_count) ==
  [body |-> body, has_response |-> has_response, response |-> resp,
   done |-> done, eval_count |-> eval_count]

OllamaLines ==
  { OllamaLine("", FALSE, << >>, FALSE, Absent),
    OllamaLine("{not json", FALSE, << >>, FALSE, Absent),
    OllamaLine("json", TRUE, << "a" >>, FALSE, Absent),
    OllamaLine("json", TRUE, << >>, TRUE, 5),
    OllamaLine("json", TRUE, << "b" >>, TRUE, Absent) }

OllamaEvents(line, callback) ==
  IF line.body = "" THEN << >>
  ELSE IF line.body # "json" THEN << >>
  ELSE (IF line.has_response THEN << Yield(line.response) >> ELSE << >>)
       \o (IF line.done
           THEN LET total_tokens ==
                      IF line.eval_count = Absent THEN 0 ELSE line.eval_count
                IN IF callback /\ total_tokens > 0
                   THEN << UsageCall(total_tokens) >> ELSE << >>
           ELSE << >>)

\* Gemini: the complete objects the scanner hands to json.loads
GeminiObject(wire, texts) == [obj |-> json_loads(wire).v, texts |-> texts]

GeminiObjects ==
  { GeminiObject(TextObject(<< "a" >>), << << "a" >> >>),
    GeminiObject(UsageObject(<< "5" >>), << >>),
    GeminiObject(UsageObject(<< "0" >>), << >>) }

Lines(provider) ==
  CASE provider = "gemini" -> GeminiObjects
    [] provider = "openai" -> OpenAILines
    [] provider = "cerebras" -> OpenAILines
    [] provider = "anthropic" -> AnthropicLines
    [] provider = "ollama" -> OllamaLines

LineEvents(provider, line, callback) ==
  CASE provider = "gemini" -> GeminiObjectEvents(line.obj, callback)
    [] provider = "openai" -> OpenAIEvents(line, callback)
    [] provider = "cerebras" -> CerebrasEvents(line, callback)
    [] provider = "anthropic" -> AnthropicEvents(line, callback)
    [] provider = "ollama" -> OllamaEvents(line, callback)

\* a line whose payload json.loads rejects (except json.JSONDecodeError)
Malformed(provider, line) ==
  CASE provider = "gemini" -> FALSE
    [] provider \in { "openai", "cerebras" } ->
         line.prefix /\ line.body \notin { "json", "[DONE]" }
    [] provider = "anthropic" -> line.prefix /\ line.body # "json"
    [] provider = "ollama" -> line.body \notin { "json", "" }

\* the line `data: [DONE]` of a server-sent-event stream
SseProviders == { "openai", "cerebras", "anthropic" }

DoneLine(provider, line) ==
  provider \in SseProviders /\ line.prefix /\ line.body = "[DONE]"

\* the text fragments a line carries on the provider's wire format
RECURSIVE ChoiceTexts(_, _)
ChoiceTexts(choices, j) ==
  IF j > Len(choices) THEN << >>
  ELSE (IF choices[j].has_content THEN << choices[j].content >> ELSE << >>)
       \o ChoiceTexts(choices, j + 1)

LineTexts(provider, line) ==
  CASE provider = "gemini" -> line.texts
    [] provider \in { "openai", "cerebras" } ->
         IF line.prefix /\ line.body = "json"
         THEN ChoiceTexts(line.choices, 1) ELSE << >>
    [] provider = "anthropic" ->
         IF line.prefix /\ line.body = "json"
            /\ line.type = "content_block_delta"
            /\ line.delta_type = "text_delta"
         THEN << line.text >> ELSE << >>
    [] provider = "ollama" ->
         IF line.body = "json" /\ line.has_response
         THEN << line.response >> ELSE << >>


\* ---- the accounting callback of /chat/search ----
\* an accounting callback without its try/except
update_token_usage_Unguarded(user, tokens, commit_fails) ==
  LET added == [user EXCEPT !.token_usage = @ + tokens] IN
  IF commit_fails
  THEN [raised |-> TRUE, user |-> added]
  ELSE [raised |-> FALSE,
        user |-> [added EXCEPT !.committed = added.token_usage]]

update_token_usage(user, tokens, commit_fails) ==
  LET added == [user EXCEPT !.token_usage = @ + tokens] IN
  IF commit_fails
  THEN [raised |-> FALSE,
        user |-> [added EXCEPT !.errors_logged = @ + 1]]
  ELSE [raised |-> FALSE,
        user |-> [added EXCEPT !.committed = added.token_usage]]

\* ---- running the events of one line inside generate_stream ----
RunState(items, usage, user) ==
  [yielded |-> items, usage_calls |-> usage, user |-> user,
   end |-> "continue", exc |-> "", accounting_failed |-> FALSE]

RECURSIVE RunEvents(_, _, _, _, _)
RunEvents(st, provider, evs, j, commit_fails) ==
  IF j > Len(evs) THEN st
  ELSE LET e == evs[j] IN
    CASE e.ev = "yield" ->
           RunEvents([st EXCEPT !.yielded = Append(@, TextItem(provider, e.text))],
                     provider, evs, j + 1, commit_fails)
      [] e.ev = "usage" ->
           LET r == update_token_usage(st.user, e.n, commit_fails)
               called == [st EXCEPT !.user = r.user,
                                    !.usage_calls = Append(@, e.n),
                                    !.accounting_failed = @ \/ commit_fails]
           IN IF r.raised
              THEN [called EXCEPT !.end = "raise", !.exc = "SQLAlchemyError"]
              ELSE RunEvents(called, provider, evs, j + 1, commit_fails)
      [] e.ev = "break" -> [st EXCEPT !.end = "break"]
      [] OTHER -> [st EXCEPT !.end = "raise", !.exc = "TypeError"]

\* chunk.encode("utf-8")
RECURSIVE Utf8Encode(_)
Utf8Encode(text) ==
  IF text = << >> THEN << >>
  ELSE (IF Head(text) = "U+00E9" THEN << "xC3", "xA9" >> ELSE << Head(text) >>)
       \o Utf8Encode(Tail(text))

Chunk(text) == [kind |-> "bytes", bytes |-> Utf8Encode(text)]

\* a response that sends the newest chunk first
RECURSIVE Forward_NewestFirst(_, _)
Forward_NewestFirst(items, j) ==
  IF j > Len(items) THEN << >>
  ELSE Forward_NewestFirst(items, j + 1) \o << Chunk(items[j].text) >>

\* yield chunk.encode("utf-8") for every chunk of generate_answer
RECURSIVE Forward(_, _)
Forward(items, j) ==
  IF j > Len(items) THEN << >>
  ELSE << Chunk(items[j].text) >> \o Forward(items, j + 1)

JSON_SEPARATOR == << "|||JSON_START|||" >>

Null == [null |-> TRUE, v |-> << >>]
Value(v) == [null |-> FALSE, v |-> v]

\* json.dumps({"highlighted_source": ..., "corrected_query": ...}).encode()
MetadataChunk(highlighted_source, corrected_query) ==
  [kind |-> "json", highlighted_source |-> highlighted_source,
   corrected_query |-> corrected_query]

\* a join that puts the newest chunk first
RECURSIVE Join_NewestFirst(_, _)
Join_NewestFirst(items, j) ==
  IF j > Len(items) THEN << >>
  ELSE Join_NewestFirst(items, j + 1) \o items[j].text

\* "".join(full_answer_buffer)
RECURSIVE Join(_, _)
Join(items, j) ==
  IF j > Len(items) THEN << >> ELSE items[j].text \o Join(items, j + 1)

NotFoundMessage(source_files) ==
  IF source_files # << >>
  THEN IF Len(source_files) = 1
       THEN << "Lo siento, no pude encontrar una respuesta en el documento '",
               source_files[1], "'." >>
       ELSE << "NO_DOCUMENTS_SELECTED" >>
  ELSE << "NO_DOCUMENTS" >>

_create_not_found_stream(source_files) ==
  << Chunk(NotFoundMessage(source_files)),
     Chunk(JSON_SEPARATOR),
     MetadataChunk(Null, Null) >>

\* a test that an empty list passes (search_results is None)
NoResults_OnlyNone(search_results) == FALSE

NoResults(search_results) == search_results = << >>


\* highlighted_source of a request: the highlighter's result, a string built
\* from both arguments (the function itself is modelled under SpecHighlight)
HighlightedSource(answer, context) ==
  Value([answer |-> answer, context |-> context])

RECURSIVE Context(_, _)
Context(search_results, j) ==
  IF j > Len(search_results) THEN << >>
  ELSE (IF j > 1 THEN << "\n---\n" >> ELSE << >>)
       \o << search_results[j] >> \o Context(search_results, j + 1)

(***************************************************************************)
(* Spec: one /chat/search request from the endpoint to the last chunk      *)
(***************************************************************************)

Statuses == { 200, 401, 404, 500 }
UserProviders ==
  { "", "gemini", "openai", "OpenAI", "anthropic", "cerebras", "ollama",
    "mistral" }
UserModels == { "", "phi4-mini" }
SourceFiles == { << >>, << "a.pdf" >>, << "a.pdf", "b.pdf" >> }
SearchResults == { << >>, << "chunk one." >> }

Requests ==
  [source_files : SourceFiles, search_results : SearchResults,
   api_key : BOOLEAN, provider : UserProviders, model : UserModels,
   query : { "q" }]

Init ==
  /\ payload = PayloadBraces
  /\ on_token_usage = TRUE
  /\ pos = 0
  /\ scan = ScanInit
  /\ gem_pc = "done"
  /\ EmbIdle
  /\ SearchIdle
  /\ PureIdle
  /\ LoopIdle
  /\ TiersIdle
  /\ UsageIdle
  /\ RestIdle
  /\ request \in Requests
  /\ pc = "search_endpoint"
  /\ ai_provider = ""
  /\ status_code = 0
  /\ nlines = 0
  /\ yielded = << >>
  /\ usage_calls = << >>
  /\ current_user = [token_usage |-> 0, committed |-> 0, errors_logged |-> 0]
  /\ response = << >>
  /\ calls = [generate_answer |-> 0, generate_stream |-> 0]
  /\ sent_texts = << >>
  /\ failures = [upstream |-> FALSE, accounting |-> FALSE, body_read |-> FALSE,
                 texts_before |-> 0, malformed |-> FALSE,
                 done_read |-> FALSE, items_at_done |-> 0, usage_at_done |-> 0]

\* search_endpoint up to the StreamingResponse it returns
SearchEndpoint ==
  /\ pc = "search_endpoint"
  /\ pc' = IF NoResults(request.search_results) THEN "not_found"
           ELSE "generate_answer"
  /\ UNCHANGED << gemVars, embVars, searchVars, pureVars, loopVars, tierVars, usageVars, cancelVars, depVars, request, ai_provider, status_code, nlines, yielded,
                  usage_calls, current_user, response, calls, sent_texts,
                  failures >>

NotFoundStream ==
  /\ pc = "not_found"
  /\ response' = _create_not_found_stream(request.source_files)
  /\ pc' = "done"
  /\ UNCHANGED << gemVars, embVars, searchVars, pureVars, loopVars, tierVars, usageVars, cancelVars, depVars, request, ai_provider, status_code, nlines, yielded,
                  usage_calls, current_user, calls, sent_texts, failures >>

\* an answer operation that goes to the provider whatever the credential
GenerateAnswer_KeyUnchecked ==
  /\ pc = "generate_answer"
  /\ ai_provider' =
       get_provider(IF request.provider = "" THEN "gemini"
                    ELSE request.provider)
  /\ calls' = [generate_answer |-> calls.generate_answer + 1,
               generate_stream |-> calls.generate_stream + 1]
  /\ pc' = "connecting"
  /\ UNCHANGED << yielded, response >>
  /\ UNCHANGED << gemVars, embVars, searchVars, pureVars, loopVars, tierVars, usageVars, cancelVars, depVars, request, status_code, nlines, usage_calls,
                  current_user, sent_texts, failures >>

\* generate_answer up to the provider's generate_stream
GenerateAnswer ==
  /\ pc = "generate_answer"
  /\ IF request.api_key
     THEN /\ ai_provider' =
               get_provider(IF request.provider = "" THEN "gemini"
                            ELSE request.provider)
          /\ calls' = [generate_answer |-> calls.generate_answer + 1,
                       generate_stream |-> calls.generate_stream + 1]
          /\ pc' = "connecting"
          /\ UNCHANGED << yielded, response >>
     ELSE /\ yielded' = << NoApiKeyItem >>
          /\ response' = Forward(yielded', 1)
          /\ calls' = [calls EXCEPT !.generate_answer = @ + 1]
          /\ pc' = "stream_end"
          /\ UNCHANGED ai_provider
  /\ UNCHANGED << gemVars, embVars, searchVars, pureVars, loopVars, tierVars, usageVars, cancelVars, depVars, request, status_code, nlines, usage_calls,
                  current_user, sent_texts, failures >>

\* an exception leaves the try block of generate_stream
Fail(exc) ==
  LET kind == Catch(Handlers(ai_provider), 1, exc) IN
  IF kind = ""
  THEN /\ pc' = "raised"
       /\ UNCHANGED << yielded, response >>
  ELSE /\ yielded' = Append(yielded, ExceptItem(ai_provider, kind))
       /\ response' = Append(response, Chunk(ExceptItem(ai_provider, kind).text))
       /\ pc' = "stream_end"

ConnectFails ==
  /\ pc = "connecting"
  /\ \E exc \in ConnectFailures : Fail(exc)
  /\ failures' = [failures EXCEPT !.upstream = TRUE]
  /\ UNCHANGED << gemVars, embVars, searchVars, pureVars, loopVars, tierVars, usageVars, cancelVars, depVars, request, ai_provider, status_code, nlines,
                  usage_calls, current_user, calls, sent_texts >>

Model == IF request.model = "" THEN default_model(ai_provider) ELSE request.model

\* the response headers arrive
ReceiveStatus ==
  /\ pc = "connecting"
  /\ \E status \in Statuses, body_read_fails \in BOOLEAN :
       /\ status_code' = status
       /\ IF ai_provider = "ollama" /\ status = 404
          THEN /\ ~body_read_fails
               /\ yielded' = << ModelNotFoundItem(Model) >>
               /\ response' = Forward(yielded', 1)
               /\ pc' = "stream_end"
               /\ UNCHANGED failures
          ELSE IF IsErrorStatus(status)
          THEN IF body_read_fails
               THEN /\ Fail("ReadError")
                    /\ failures' = [failures EXCEPT !.upstream = TRUE,
                                                    !.body_read = TRUE]
               ELSE /\ yielded' = << HttpErrorItem(ai_provider, status) >>
                    /\ response' = Forward(yielded', 1)
                    /\ pc' = "stream_end"
                    /\ UNCHANGED failures
          ELSE /\ ~body_read_fails
               /\ pc' = "streaming"
               /\ UNCHANGED << yielded, response, failures >>
  /\ UNCHANGED << gemVars, embVars, searchVars, pureVars, loopVars, tierVars, usageVars, cancelVars, depVars, request, ai_provider, nlines, usage_calls,
                  current_user, calls, sent_texts >>

\* one line (Gemini: one object) of the body is handled
RecvLine ==
  /\ pc = "streaming"
  /\ nlines < MaxLines
  /\ \E line \in Lines(ai_provider), commit_fails \in BOOLEAN :
       LET evs == LineEvents(ai_provider, line, on_token_usage)
           r == RunEvents(RunState(yielded, usage_calls, current_user),
                          ai_provider, evs, 1, commit_fails)
           kind == Catch(Handlers(ai_provider), 1, r.exc)
           items == IF r.end = "raise" /\ kind # ""
                    THEN Append(r.yielded, ExceptItem(ai_provider, kind))
                    ELSE r.yielded
       IN /\ commit_fails => Len(r.usage_calls) > Len(usage_calls)
          /\ yielded' = items
          /\ response' = Forward(items, 1)
          /\ usage_calls' = r.usage_calls
          /\ current_user' = r.user
          /\ sent_texts' = sent_texts \o LineTexts(ai_provider, line)
          /\ failures' =
               [failures EXCEPT
                  !.malformed = @ \/ Malformed(ai_provider, line),
                  !.done_read = @ \/ DoneLine(ai_provider, line),
                  !.items_at_done =
                     IF ~failures.done_read /\ DoneLine(ai_provider, line)
                     THEN Len(items) ELSE @,
                  !.usage_at_done =
                     IF ~failures.done_read /\ DoneLine(ai_provider, line)
                     THEN Len(r.usage_calls) ELSE @,
                  !.accounting = @ \/ r.accounting_failed,
                  !.texts_before =
                     IF ~failures.accounting /\ r.accounting_failed
                     THEN Len(sent_texts') ELSE @]
          /\ pc' = CASE r.end = "continue" -> "streaming"
                     [] r.end = "break" -> "stream_end"
                     [] r.end = "raise" ->
                          IF kind = "" THEN "raised" ELSE "stream_end"
  /\ nlines' = nlines + 1
  /\ UNCHANGED << gemVars, embVars, searchVars, pureVars, loopVars, tierVars, usageVars, cancelVars, depVars, request, ai_provider, status_code, calls >>

StreamFails ==
  /\ pc = "streaming"
  /\ \E exc \in StreamFailures : Fail(exc)
  /\ failures' = [failures EXCEPT !.upstream = TRUE]
  /\ UNCHANGED << gemVars, embVars, searchVars, pureVars, loopVars, tierVars, usageVars, cancelVars, depVars, request, ai_provider, status_code, nlines,
                  usage_calls, current_user, calls, sent_texts >>

StreamEnds ==
  /\ pc = "streaming"
  /\ pc' = "stream_end"
  /\ UNCHANGED << gemVars, embVars, searchVars, pureVars, loopVars, tierVars, usageVars, cancelVars, depVars, request, ai_provider, status_code, nlines, yielded,
                  usage_calls, current_user, response, calls, sent_texts,
                  failures >>

\* generate_and_stream_response after its loop
Finish ==
  /\ pc = "stream_end"
  /\ LET generated_answer == Join(yielded, 1)
         context == Context(request.search_results, 1)
     IN response' = response \o
          << Chunk(JSON_SEPARATOR),
             MetadataChunk(HighlightedSource(generated_answer, context),
                           Value(request.query)) >>
  /\ pc' = "done"
  /\ UNCHANGED << gemVars, embVars, searchVars, pureVars, loopVars, tierVars, usageVars, cancelVars, depVars, request, ai_provider, status_code, nlines, yielded,
                  usage_calls, current_user, calls, sent_texts, failures >>

Next ==
  \/ SearchEndpoint
  \/ NotFoundStream
  \/ GenerateAnswer
  \/ ConnectFails
  \/ ReceiveStatus
  \/ RecvLine
  \/ StreamFails
  \/ StreamEnds
  \/ Finish

Spec == Init /\ [][Next]_vars


(***************************************************************************)
(* Properties of the provider streams and of the request                   *)
(***************************************************************************)

ErrorItems(items) == SelectSeq(items, LAMBDA it : it.kind \in ErrorKinds)
TextItems(items) == SelectSeq(items, LAMBDA it : it.kind = "text")
TextsOf(items) == [j \in 1..Len(TextItems(items)) |-> TextItems(items)[j].text]

StreamOver == pc \in { "stream_end", "done" }

C3_UsageAtMostOnce == Len(usage_calls) <= 1

\* C4: under any upstream failure (connection refused, timeout, exception
\* mid-stream after some fragments), generate_stream raises nothing to its
\* consumer: it yields exactly one error message, as its last item, and the
\* stream ends.
C4_FailureGivesOneFinalError ==
  failures.upstream =>
    /\ StreamOver
    /\ Len(ErrorItems(yielded)) = 1
    /\ yielded[Len(yielded)].kind \in ErrorKinds

C4_Witness ==
  /\ failures.upstream
  /\ pc = "done"
  /\ ai_provider = "ollama"
  /\ Len(yielded) = 3
  /\ yielded[3].kind = "ollama_error"

\* C5: when hybrid search returns no candidates, the response is exactly one
\* message fragment followed by the terminal metadata (separator and record)
\* with highlighted context null, and neither generate_answer nor any
\* provider's generate_stream is called.
C5_NoCandidatesNoProviderCall ==
  request.search_results = << >> =>
    /\ calls.generate_answer = 0
    /\ calls.generate_stream = 0
    /\ yielded = << >>
    /\ pc \in { "search_endpoint", "not_found", "done" }
    /\ pc = "done" =>
         /\ Len(response) = 3
         /\ response[1] = Chunk(NotFoundMessage(request.source_files))
         /\ response[2] = Chunk(JSON_SEPARATOR)
         /\ response[3].kind = "json"
         /\ response[3].highlighted_source = Null

C5_Witness ==
  /\ request.search_results = << >>
  /\ pc = "done"
  /\ request.api_key
  /\ Len(request.source_files) = 1
  /\ Len(response) = 3

LRU_CACHE_SIZE == 2
MaxBatch == 3

model_name == "all-MiniLM-L6-v2"

Texts == { "a", "b", "c", "d" }

\* an element of the list that is not a str (None)
NotAString == "<None>"
isinstance_str(t) == t # NotAString

\* hashlib.sha256(text).hexdigest(), split where _get_cache_key cuts it:
\* the digests differ, the leading 16 hex digits of "a" and "d" do not
sha256_hexdigest ==
  [ a |-> [first16 |-> "1f", rest |-> "07"],
    b |-> [first16 |-> "2e", rest |-> "07"],
    c |-> [first16 |-> "90", rest |-> "5b"],
    d |-> [first16 |-> "1f", rest |-> "c3"] ]

_get_cache_key(text) ==
  [prefix |-> "emb", model_name |-> model_name,
   text_hash |-> sha256_hexdigest[text].first16]

\* self.model.encode(..., normalize_embeddings=True).tolist(), in tenths
Embed(text) ==
  CASE text = "a" -> << 6, 8 >>
    [] text = "b" -> << 8, 6 >>
    [] text = "c" -> << 10, 0 >>
    [] text = "d" -> << 0, 10 >>

\* ---- json.dumps / json.loads of a list of floats ----
DigitChars == << "0", "1", "2", "3", "4", "5", "6", "7", "8", "9" >>

FloatRepr(x) ==
  << DigitChars[(x \div 10) + 1], ".", DigitChars[(x % 10) + 1] >>

RECURSIVE DumpElements(_, _)
DumpElements(v, j) ==
  IF j > Len(v) THEN << >>
  ELSE (IF j > 1 THEN << ",", " " >> ELSE << >>)
       \o FloatRepr(v[j]) \o DumpElements(v, j + 1)

json_dumps(embedding) == << "[" >> \o DumpElements(embedding, 1) \o << "]" >>

RECURSIVE LoadElements(_, _, _)
LoadElements(s, i, acc) ==
  IF i > Len(s) THEN acc
  ELSE IF s[i] \in { "[", ",", " " } THEN LoadElements(s, i + 1, acc)
  ELSE IF s[i] = "]" THEN acc
  ELSE LoadElements(s, i + 3,
                    Append(acc, DigitVal(s[i]) * 10 + DigitVal(s[i + 2])))

json_loads_embedding(s) == LoadElements(s, 1, << >>)

\* ---- dict and list helpers ----
Remove(keys, x) == SelectSeq(keys, LAMBDA y : y # x)
Drop(dict, k) == [x \in DOMAIN dict \ { k } |-> dict[x]]
Put(dict, k, v) ==
  [x \in DOMAIN dict \cup { k } |-> IF x = k THEN v ELSE dict[x]]

\* ---- the in-process LRU ----
\* a _lru_get that leaves the order alone
_lru_get_NoTouch(es, key) ==
  IF key \in DOMAIN es.lru_cache
  THEN [hit |-> TRUE, value |-> es.lru_cache[key], es |-> es]
  ELSE [hit |-> FALSE, value |-> << >>, es |-> es]

\* a _lru_get that appends the key without removing its old position
_lru_get_AppendOnly(es, key) ==
  IF key \in DOMAIN es.lru_cache
  THEN [hit |-> TRUE, value |-> es.lru_cache[key],
        es |-> [es EXCEPT !.lru_keys = Append(@, key)]]
  ELSE [hit |-> FALSE, value |-> << >>, es |-> es]

_lru_get(es, key) ==
  IF key \in DOMAIN es.lru_cache
  THEN [hit |-> TRUE, value |-> es.lru_cache[key],
        es |-> [es EXCEPT !.lru_keys = Append(Remove(@, key), key)]]
  ELSE [hit |-> FALSE, value |-> << >>, es |-> es]

\* a _lru_set that never evicts
_lru_set_NoEvict(es, key, embedding) ==
  [es EXCEPT !.lru_keys = IF key \in DOMAIN es.lru_cache THEN @
                          ELSE Append(@, key),
             !.lru_cache = Put(@, key, embedding)]

_lru_set(es, key, embedding) ==
  LET fresh == key \notin DOMAIN es.lru_cache
      evict == fresh /\ Len(es.lru_keys) >= LRU_CACHE_SIZE
      oldest_key == es.lru_keys[1]
      kept == IF evict THEN Drop(es.lru_cache, oldest_key) ELSE es.lru_cache
  IN [es EXCEPT
        !.lru_keys = IF fresh
                     THEN Append(IF evict THEN Tail(@) ELSE @, key)
                     ELSE @,
        !.lru_cache = Put(kept, key, embedding)]

\* ---- accesses, as the eviction policy is meant to see them ----
TrackedGet(es, key) ==
  LET r == _lru_get(es, key) IN
  IF r.hit
  THEN [r EXCEPT !.es.recency = Append(Remove(@, key), key)]
  ELSE r

TrackedSet(es, key, embedding) ==
  LET after == _lru_set(es, key, embedding)
      gone == DOMAIN es.lru_cache \ DOMAIN after.lru_cache
      fresh == key \notin DOMAIN es.lru_cache
      Stay(keys) == SelectSeq(keys, LAMBDA k : k \notin gone)
      Track(keys) == IF fresh THEN Append(Stay(keys), key) ELSE Stay(keys)
  IN [after EXCEPT
        !.recency = Track(es.recency),
        !.inserted = Track(es.inserted),
        !.evictions =
           IF gone = { } THEN @
           ELSE Append(@, [evicted |-> CHOOSE k \in gone : TRUE,
                           least_recent |-> es.recency[1],
                           oldest_inserted |-> es.inserted[1]])]


\* ---- the two tiers ----
\* a _get_cached_embedding that returns a shared-tier hit without _lru_set
_get_cached_embedding_NoPromote(es, text, read_fails) ==
  LET cache_key == _get_cache_key(text)
      cached == TrackedGet(es, cache_key)
  IN IF cached.hit
     THEN [found |-> TRUE, value |-> cached.value, source |-> "lru",
           es |-> cached.es]
     ELSE IF es.redis_enabled /\ ~read_fails /\ cache_key \in DOMAIN es.redis
     THEN [found |-> TRUE, value |-> json_loads_embedding(es.redis[cache_key]),
           source |-> "redis", es |-> cached.es]
     ELSE [found |-> FALSE, value |-> << >>, source |-> "model",
           es |-> cached.es]

_get_cached_embedding(es, text, read_fails) ==
  LET cache_key == _get_cache_key(text)
      cached == TrackedGet(es, cache_key)
  IN IF cached.hit
     THEN [found |-> TRUE, value |-> cached.value, source |-> "lru",
           es |-> cached.es]
     ELSE IF es.redis_enabled /\ ~read_fails /\ cache_key \in DOMAIN es.redis
     THEN LET embedding == json_loads_embedding(es.redis[cache_key]) IN
          [found |-> TRUE, value |-> embedding, source |-> "redis",
           es |-> TrackedSet(cached.es, cache_key, embedding)]
     ELSE [found |-> FALSE, value |-> << >>, source |-> "model",
           es |-> cached.es]

\* a _cache_embedding that writes the shared tier only
_cache_embedding_RedisOnly(es, text, embedding, write_fails) ==
  IF es.redis_enabled /\ ~write_fails
  THEN [es EXCEPT !.redis = Put(@, _get_cache_key(text), json_dumps(embedding))]
  ELSE es

_cache_embedding(es, text, embedding, write_fails) ==
  LET cache_key == _get_cache_key(text)
      stored == TrackedSet(es, cache_key, embedding)
  IN IF es.redis_enabled /\ ~write_fails
     THEN [stored EXCEPT !.redis = Put(@, cache_key, json_dumps(embedding))]
     ELSE stored

\* Fase 1: the cache is asked for every text, in order
RECURSIVE CheckCache(_, _, _, _)
CheckCache(run, texts, i, read_fails) ==
  IF i > Len(texts) THEN run
  ELSE LET c == _get_cached_embedding(run.es, texts[i], read_fails) IN
       CheckCache([run EXCEPT
                     !.es = c.es,
                     !.results = Append(@, c.value),
                     !.sources = Append(@, c.source),
                     !.indices_to_compute =
                        IF c.found THEN @ ELSE Append(@, i)],
                  texts, i + 1, read_fails)

\* Fase 2: the misses, computed in one batch, are stored and filled in
RECURSIVE StoreNew(_, _, _, _)
StoreNew(run, texts, j, write_fails) ==
  IF j > Len(run.indices_to_compute) THEN run
  ELSE LET idx == run.indices_to_compute[j]
           embedding == Embed(texts[idx])
       IN StoreNew([run EXCEPT
                      !.results[idx] = embedding,
                      !.es = _cache_embedding(@, texts[idx], embedding,
                                              write_fails)],
                   texts, j + 1, write_fails)

create_embeddings(es, texts, read_fails, write_fails, encode_fails) ==
  LET start == [es |-> es, results |-> << >>, sources |-> << >>,
                indices_to_compute |-> << >>, model_calls |-> 0,
                raised |-> FALSE]
  IN IF texts = << >> \/ \E i \in 1..Len(texts) : ~isinstance_str(texts[i])
     THEN start
     ELSE LET checked == CheckCache(start, texts, 1, read_fails) IN
          IF checked.indices_to_compute = << >> THEN checked
          ELSE IF encode_fails
          THEN [checked EXCEPT !.model_calls = 1, !.raised = TRUE,
                               !.results = << >>, !.sources = << >>]
          ELSE StoreNew([checked EXCEPT !.model_calls = 1], texts, 1,
                        write_fails)

(***************************************************************************)
(* SpecEmb: create_embeddings calls on one AdvancedEmbeddingSystem         *)
(***************************************************************************)

RECURSIVE SeqsUpTo(_, _)
SeqsUpTo(S, n) ==
  IF n = 0 THEN { << >> }
  ELSE LET shorter == SeqsUpTo(S, n - 1) IN
       shorter \cup { Append(q, x) : q \in shorter, x \in S }

\* lists that hold something that is not a str
InvalidBatches ==
  { Append(q, NotAString) : q \in SeqsUpTo({ "a" }, MaxBatch - 1) }
    \cup { << NotAString, "a" >> }

Batches == SeqsUpTo(Texts, MaxBatch) \cup InvalidBatches

EmbState ==
  [lru_cache |-> lru_cache, lru_keys |-> lru_keys, redis |-> redis,
   redis_enabled |-> redis_enabled, recency |-> recency,
   inserted |-> inserted, evictions |-> << >>]

Observed(texts, run) ==
  [texts |-> texts, results |-> run.results, sources |-> run.sources,
   model_calls |-> run.model_calls, evictions |-> run.es.evictions,
   raised |-> run.raised]

EmbInit ==
  /\ payload = PayloadBraces
  /\ on_token_usage = TRUE
  /\ pos = 0
  /\ scan = ScanInit
  /\ gem_pc = "done"
  /\ ChatIdle
  /\ SearchIdle
  /\ PureIdle
  /\ LoopIdle
  /\ TiersIdle
  /\ UsageIdle
  /\ RestIdle
  /\ lru_cache = << >>
  /\ lru_keys = << >>
  /\ redis = << >>
  /\ redis_enabled \in BOOLEAN
  /\ recency = << >>
  /\ inserted = << >>
  /\ emb_pc = "idle"
  /\ obs1 = EmptyObs
  /\ obs2 = EmptyObs

Call(texts, read_fails, write_fails, encode_fails) ==
  LET run == create_embeddings(EmbState, texts, read_fails, write_fails,
                               encode_fails)
  IN
  /\ lru_cache' = run.es.lru_cache
  /\ lru_keys' = run.es.lru_keys
  /\ redis' = run.es.redis
  /\ recency' = run.es.recency
  /\ inserted' = run.es.inserted
  /\ IF emb_pc = "idle"
     THEN obs1' = Observed(texts, run) /\ obs2' = obs2
     ELSE obs2' = Observed(texts, run) /\ obs1' = obs1
  /\ UNCHANGED << gemVars, chatVars, searchVars, pureVars, loopVars, tierVars, usageVars, cancelVars, depVars, redis_enabled >>

\* create_embeddings(texts)
CreateEmbeddings ==
  /\ emb_pc = "idle"
  /\ \E texts \in Batches, read_fails \in BOOLEAN, write_fails \in BOOLEAN,
        encode_fails \in BOOLEAN :
       /\ (read_fails \/ write_fails) => redis_enabled
       /\ encode_fails => ~write_fails
       /\ Call(texts, read_fails, write_fails, encode_fails)
  /\ emb_pc' = "called"

\* the same create_embeddings(texts) once more, nothing in between
CreateEmbeddingsAgain ==
  /\ emb_pc = "called"
  /\ ~obs1.raised
  /\ \E read_fails \in BOOLEAN, write_fails \in BOOLEAN,
        encode_fails \in BOOLEAN :
       /\ (read_fails \/ write_fails) => redis_enabled
       /\ encode_fails => ~write_fails
       /\ Call(obs1.texts, read_fails, write_fails, encode_fails)
  /\ emb_pc' = "repeated"

\* the caller is done with the results
Return ==
  /\ emb_pc \in { "called", "repeated" }
  /\ emb_pc' = "idle"
  /\ obs1' = EmptyObs
  /\ obs2' = EmptyObs
  /\ UNCHANGED << gemVars, chatVars, searchVars, pureVars, loopVars, tierVars, usageVars, cancelVars, depVars, lru_cache, lru_keys, redis,
                  redis_enabled, recency, inserted >>

\* an entry of the shared tier reaches EMBEDDING_CACHE_TTL
RedisExpire ==
  /\ emb_pc = "idle"
  /\ \E k \in DOMAIN redis : redis' = Drop(redis, k)
  /\ UNCHANGED << gemVars, chatVars, searchVars, pureVars, loopVars, tierVars, usageVars, cancelVars, depVars, lru_cache, lru_keys, redis_enabled,
                  recency, inserted, emb_pc, obs1, obs2 >>

EmbNext ==
  \/ CreateEmbeddings
  \/ CreateEmbeddingsAgain
  \/ Return
  \/ RedisExpire

SpecEmb == EmbInit /\ [][EmbNext]_vars


(***************************************************************************)
(* Properties of the embedding cache                                       *)
(***************************************************************************)

KeysOf(texts) == { _get_cache_key(texts[i]) : i \in 1..Len(texts) }

AllStrings(texts) == \A i \in 1..Len(texts) : isinstance_str(texts[i])

\* the last position of texts whose text has the cache key of position i
LastWithKeyOf(texts, i) ==
  CHOOSE j \in 1..Len(texts) :
    /\ _get_cache_key(texts[j]) = _get_cache_key(texts[i])
    /\ \A k \in (j + 1)..Len(texts) :
         _get_cache_key(texts[k]) # _get_cache_key(texts[i])

C8_LruBounded ==
  /\ Cardinality(DOMAIN lru_cache) <= LRU_CACHE_SIZE
  /\ Len(lru_keys) <= LRU_CACHE_SIZE
  /\ DOMAIN lru_cache = { lru_keys[i] : i \in 1..Len(lru_keys) }

C8_Witness ==
  /\ emb_pc = "called"
  /\ Len(lru_keys) = LRU_CACHE_SIZE
  /\ Len(obs1.evictions) >= 2
  /\ \E i \in 1..Len(obs1.sources) : obs1.sources[i] = "redis"
  /\ \E i \in 1..Len(obs1.sources) : obs1.sources[i] = "model"

\* C9: whenever a new key is inserted into a full LRU, the key evicted is the
\* least recently accessed one, an access being a hit through _lru_get or the
\* key's insertion; it is not the oldest inserted key when hits intervened.
C9_EvictsLeastRecentlyAccessed ==
  /\ \A i \in 1..Len(obs1.evictions) :
       obs1.evictions[i].evicted = obs1.evictions[i].least_recent
  /\ \A i \in 1..Len(obs2.evictions) :
       obs2.evictions[i].evicted = obs2.evictions[i].least_recent
  /\ recency = lru_keys

C9_Witness ==
  /\ emb_pc = "called"
  /\ \E i \in 1..Len(obs1.evictions) :
       /\ obs1.evictions[i].evicted = obs1.evictions[i].least_recent
       /\ obs1.evictions[i].evicted # obs1.evictions[i].oldest_inserted

ServedAsComputed(obs) ==
  \A i \in 1..Len(obs.sources) :
    obs.sources[i] \in { "lru", "redis" } => obs.results[i] = Embed(obs.texts[i])

\* C10: whenever create_embeddings serves a text from the in-process LRU or
\* from the shared tier, the returned vector equals the vector the embedding
\* model computes for that text.
C10_HitEqualsComputation ==
  /\ emb_pc \in { "called", "repeated" } => ServedAsComputed(obs1)
  /\ emb_pc = "repeated" => ServedAsComputed(obs2)


OnePerText(obs) ==
  \/ obs.raised
  \/ /\ Len(obs.results) = Len(obs.texts)
     /\ \A i \in 1..Len(obs.texts) : obs.results[i] = Embed(obs.texts[i])

\* C11: for every input list, create_embeddings either raises or returns
\* exactly one vector per input text in input order, element i being the
\* vector of texts[i]; it never returns fewer vectors than inputs.
C11_OneVectorPerText ==
  /\ emb_pc \in { "called", "repeated" } => OnePerText(obs1)
  /\ emb_pc = "repeated" => OnePerText(obs2)


(***************************************************************************)
(* Hybrid search: vector query, lexical query, merge by id, re-rank        *)
(***************************************************************************)

MaxTopK == 2

\* the documents table: chunks of two owners
documents ==
  << [id |-> 1, owner_id |-> 1, source_file |-> "a.pdf", content |-> "uno"],
     [id |-> 2, owner_id |-> 1, source_file |-> "b.pdf", content |-> "dos"],
     [id |-> 3, owner_id |-> 2, source_file |-> "a.pdf", content |-> "tres"],
     [id |-> 4, owner_id |-> 1, source_file |-> "b.pdf", content |-> "cuatro"] >>

DocIds == 1..Len(documents)
Owners == { documents[i].owner_id : i \in DocIds }

\* source_files: None, [] or a list of names
NoSourceFiles == [given |-> FALSE, files |-> << >>]
SourceFileArgs ==
  { NoSourceFiles,
    [given |-> TRUE, files |-> << >>],
    [given |-> TRUE, files |-> << "a.pdf" >>],
    [given |-> TRUE, files |-> << "b.pdf", "c.pdf" >>] }

\* if source_files:
Truthy(source_files) == source_files.given /\ source_files.files # << >>

Members(files) == { files[i] : i \in 1..Len(files) }

\* a WHERE clause without the owner
Where_AnyOwner(doc, owner_id, source_files) ==
  Truthy(source_files) => doc.source_file \in Members(source_files.files)

\* WHERE owner_id = :owner_id [AND chunk_metadata->>'source_file' = ANY(...)]
Where(doc, owner_id, source_files) ==
  /\ doc.owner_id = owner_id
  /\ Truthy(source_files) => doc.source_file \in Members(source_files.files)

\* dict(row._mapping) of a selected row; rerank_score is set later
Row(doc, via) ==
  [id |-> doc.id, content |-> doc.content, source_file |-> doc.source_file,
   via |-> via, rerank_score |-> Absent]

\* all orders of the elements of a set
RECURSIVE Orderings(_)
Orderings(S) ==
  IF S = { } THEN { << >> }
  ELSE UNION { { << x >> \o q : q \in Orderings(S \ { x }) } : x \in S }

\* LIMIT :top_k
Limit(rows, top_k) ==
  SubSeq(rows, 1, IF Len(rows) < top_k THEN Len(rows) ELSE top_k)

\* by_similarity: the ids of the table by decreasing similarity to the query
_semantic_search(by_similarity, top_k, owner_id, source_files) ==
  LET selected == SelectSeq(by_similarity,
                            LAMBDA i : Where(documents[i], owner_id, source_files))
  IN Limit([j \in 1..Len(selected) |-> Row(documents[selected[j]], "semantic")],
           top_k)

\* matching: the ids whose search_vector matches the tsquery; by_rank: the
\* matching ids by decreasing ts_rank_cd
_keyword_search(matching, by_rank, top_k, owner_id, source_files) ==
  LET selected == SelectSeq(by_rank,
                            LAMBDA i : /\ i \in matching
                                       /\ Where(documents[i], owner_id, source_files))
  IN Limit([j \in 1..Len(selected) |-> Row(documents[selected[j]], "keyword")],
           top_k)

IdsOf(rows) == { rows[j].id : j \in 1..Len(rows) }

\* a merge that appends every lexical row
Merge_NoIdCheck(semantic_results, keyword_results) ==
  semantic_results \o keyword_results

\* a merge in which the lexical rows come first and win
Merge_KeywordFirst(semantic_results, keyword_results) ==
  keyword_results
    \o SelectSeq(semantic_results, LAMBDA r : r.id \notin IdsOf(keyword_results))

\* combined_results_map, as the list of its values
Merge(semantic_results, keyword_results) ==
  semantic_results
    \o SelectSeq(keyword_results, LAMBDA r : r.id \notin IdsOf(semantic_results))

\* a sort in increasing score
RECURSIVE SortedByRerank_Ascending(_)
SortedByRerank_Ascending(rows) ==
  IF rows = << >> THEN << >>
  ELSE LET first == Head(rows)
           rest == SortedByRerank_Ascending(Tail(rows))
       IN SelectSeq(rest, LAMBDA r : r.rerank_score < first.rerank_score)
          \o << first >>
          \o SelectSeq(rest, LAMBDA r : r.rerank_score >= first.rerank_score)

\* sorted(combined_results, key=rerank_score, reverse=True): stable
RECURSIVE SortedByRerank(_)
SortedByRerank(rows) ==
  IF rows = << >> THEN << >>
  ELSE LET first == Head(rows)
           rest == SortedByRerank(Tail(rows))
       IN SelectSeq(rest, LAMBDA r : r.rerank_score > first.rerank_score)
          \o << first >>
          \o SelectSeq(rest, LAMBDA r : r.rerank_score <= first.rerank_score)

\* a hybrid search that cuts the merged list to top_k before it re-ranks
hybrid_search_CutFirst(by_similarity, matching, by_rank, scores, top_k, owner_id, source_files, reranker) ==
  LET semantic_results ==
        _semantic_search(by_similarity, top_k, owner_id, source_files)
      keyword_results ==
        _keyword_search(matching, by_rank, top_k, owner_id, source_files)
      combined_results == Merge(semantic_results, keyword_results)
      scored == [j \in 1..Len(combined_results) |->
                   [combined_results[j] EXCEPT
                      !.rerank_score = scores[combined_results[j].id]]]
  IN [results |-> IF reranker THEN SortedByRerank(Limit(scored, top_k))
                  ELSE Limit(combined_results, top_k),
      semantic_results |-> semantic_results,
      keyword_results |-> keyword_results,
      combined_results |-> IF reranker THEN scored ELSE combined_results,
      reranked |-> reranker /\ combined_results # << >>]

\* a hybrid search without the `if not combined_results` test
hybrid_search_NoEmptyTest(by_similarity, matching, by_rank, scores, top_k, owner_id, source_files, reranker) ==
  LET semantic_results ==
        _semantic_search(by_similarity, top_k, owner_id, source_files)
      keyword_results ==
        _keyword_search(matching, by_rank, top_k, owner_id, source_files)
      combined_results == Merge(semantic_results, keyword_results)
      scored == [j \in 1..Len(combined_results) |->
                   [combined_results[j] EXCEPT
                      !.rerank_score = scores[combined_results[j].id]]]
      final_results == IF reranker THEN SortedByRerank(scored)
                       ELSE combined_results
  IN [results |-> Limit(final_results, top_k),
      semantic_results |-> semantic_results,
      keyword_results |-> keyword_results,
      combined_results |-> IF reranker THEN scored ELSE combined_results,
      reranked |-> reranker]

hybrid_search(by_similarity, matching, by_rank, scores, top_k, owner_id, source_files, reranker) ==
  LET semantic_results ==
        _semantic_search(by_similarity, top_k, owner_id, source_files)
      keyword_results ==
        _keyword_search(matching, by_rank, top_k, owner_id, source_files)
      combined_results == Merge(semantic_results, keyword_results)
      scored == [j \in 1..Len(combined_results) |->
                   [combined_results[j] EXCEPT
                      !.rerank_score = scores[combined_results[j].id]]]
      final_results == IF reranker THEN SortedByRerank(scored)
                       ELSE combined_results
  IN [results |-> IF combined_results = << >> THEN << >>
                  ELSE Limit(final_results, top_k),
      semantic_results |-> semantic_results,
      keyword_results |-> keyword_results,
      combined_results |-> IF reranker THEN scored ELSE combined_results,
      reranked |-> reranker /\ combined_results # << >>]

(***************************************************************************)
(* SpecSearch: one hybrid_search call on a table of chunks                 *)
(***************************************************************************)

RerankScores == { 1, 2 }

\* query texts, as tokens: the empty string and a word with a mark
QueryTexts == { << >>, << "uno", "?" >> }

\* ' | '.join(re.sub(r'[¿?¡!.,;:]', '', query).split()), as the list of
\* the words it joins
formatted_query(query_text) ==
  SelectSeq(query_text,
            LAMBDA t : t \notin { "¿", "?", "¡", "!", ".", ",", ";", ":", " " })

\* the sets of chunks that search_vector @@ to_tsquery(...) can select: a
\* tsquery without lexemes matches no row
Matchings(query_text) ==
  IF formatted_query(query_text) = << >> THEN { { } } ELSE SUBSET DocIds

SearchInputs ==
  [query_text : QueryTexts, owner_id : Owners, source_files : SourceFileArgs,
   top_k : 1..MaxTopK, reranker : BOOLEAN]

SearchInit ==
  /\ payload = PayloadBraces
  /\ on_token_usage = TRUE
  /\ pos = 0
  /\ scan = ScanInit
  /\ gem_pc = "done"
  /\ ChatIdle
  /\ EmbIdle
  /\ PureIdle
  /\ LoopIdle
  /\ TiersIdle
  /\ UsageIdle
  /\ RestIdle
  /\ search_in \in SearchInputs
  /\ search_out = [results |-> << >>, semantic_results |-> << >>,
                   keyword_results |-> << >>, combined_results |-> << >>,
                   reranked |-> FALSE]
  /\ search_pc = "called"

HybridSearch ==
  /\ search_pc = "called"
  /\ \E by_similarity \in Orderings(DocIds),
        matching \in Matchings(search_in.query_text),
        scores \in [DocIds -> RerankScores] :
       \E by_rank \in Orderings(matching) :
       search_out' = hybrid_search(by_similarity, matching, by_rank, scores,
                                   search_in.top_k, search_in.owner_id,
                                   search_in.source_files, search_in.reranker)
  /\ search_pc' = "returned"
  /\ UNCHANGED << gemVars, chatVars, embVars, search_in, pureVars, loopVars, tierVars, usageVars, cancelVars, depVars >>

SearchNext == HybridSearch

SpecSearch == SearchInit /\ [][SearchNext]_vars


(***************************************************************************)
(* Properties of hybrid search                                             *)
(***************************************************************************)

Returned == search_pc = "returned"

\* C12: for every pair of vector-search and lexical-search result sets,
\* including ones that share candidates, the list one hybrid_search call
\* returns holds no two entries with the same id.
C12_NoDuplicateIds ==
  Returned =>
    \A i, j \in 1..Len(search_out.results) :
      search_out.results[i].id = search_out.results[j].id => i = j

C12_Witness ==
  /\ Returned
  /\ IdsOf(search_out.semantic_results) \cap IdsOf(search_out.keyword_results)
       # { }
  /\ ~(IdsOf(search_out.keyword_results)
         \subseteq IdsOf(search_out.semantic_results))
  /\ Len(search_out.results) = 2

\* C13: with a re-ranker loaded, hybrid_search returns its candidates in
\* non-increasing rerank_score order; without one it returns the merged
\* candidates and never touches the re-ranker.
C13_RerankOrder ==
  Returned =>
    IF search_in.reranker
    THEN \A i, j \in 1..Len(search_out.results) :
           i < j =>
             /\ search_out.results[i].rerank_score # Absent
             /\ search_out.results[i].rerank_score
                  >= search_out.results[j].rerank_score
    ELSE /\ ~search_out.reranked
         /\ Len(search_out.results) <= search_in.top_k
         /\ IdsOf(search_out.semantic_results) \subseteq
              IdsOf(search_out.results) \cup
                { search_out.semantic_results[k].id :
                    k \in (search_in.top_k + 1)..Len(search_out.semantic_results) }
         /\ \A i \in 1..Len(search_out.results) :
              search_out.results[i].rerank_score = Absent

C13_Witness ==
  /\ Returned
  /\ search_in.reranker
  /\ Len(search_out.results) = 2
  /\ search_out.results[1].via = "keyword"
  /\ search_out.results[2].via = "semantic"
  /\ search_out.results[1].rerank_score > search_out.results[2].rerank_score

\* C14 as stated: every returned candidate is owned by owner_id and, whenever
\* a source_files list is given, has a source_file in that list.
C14_ScopedToOwnerAndGivenFiles ==
  Returned =>
    \A i \in 1..Len(search_out.results) :
      LET doc == documents[search_out.results[i].id] IN
      /\ doc.owner_id = search_in.owner_id
      /\ search_in.source_files.given =>
           doc.source_file \in Members(search_in.source_files.files)

\* C14 amended: every returned candidate is owned by owner_id and, whenever a
\* non-empty source_files list is given, has a source_file in that list; an
\* empty list filters nothing. This holds for vector and lexical candidates.
C14_ScopedToOwnerAndFiles ==
  Returned =>
    \A i \in 1..Len(search_out.results) :
      LET doc == documents[search_out.results[i].id] IN
      /\ doc.owner_id = search_in.owner_id
      /\ (search_in.source_files.given /\ search_in.source_files.files # << >>)
           => doc.source_file \in Members(search_in.source_files.files)

C14_Witness ==
  /\ Returned
  /\ search_in.owner_id = 1
  /\ search_in.source_files = [given |-> TRUE, files |-> << "b.pdf", "c.pdf" >>]
  /\ Len(search_out.results) = 1
  /\ search_out.results[1].via = "keyword"
  /\ search_out.semantic_results # << >>


(***************************************************************************)
(* SearchEngine._highlight_relevant_sentences                              *)
(*                                                                         *)
(* A text is a sequence of tokens: runs of letters ("casa"), the           *)
(* punctuation marks and the whitespace characters.  The letter tokens     *)
(* form a prefix code, so a run of adjacent letter tokens is one word and  *)
(* two words are equal exactly when their token sequences are.             *)
(***************************************************************************)

MaxContext == 4

Whitespace == { " ", "\n" }
Terminators == { ".", "!", "?" }
Punctuation == Terminators \cup { "," }

IsSpace(t) == t \in Whitespace
IsLetters(t) == t \notin Whitespace \cup Punctuation \cup { "<strong>", "</strong>" }

\* len(t) of a letter token
CharLen(t) == IF t \in { "sol", "Sol" } THEN 3 ELSE 4

\* str.lower() of a token
LowerToken(t) ==
  IF t = "Casa" THEN "casa" ELSE IF t = "Sol" THEN "sol" ELSE t

\* the first index from i on that holds no whitespace
RECURSIVE SkipSpace(_, _)
SkipSpace(text, i) ==
  IF i <= Len(text) /\ IsSpace(text[i]) THEN SkipSpace(text, i + 1) ELSE i

\* re.split(r'(?<=[.!?])\s+', text) from index i on, current being the part
\* collected so far
RECURSIVE SplitFrom(_, _, _)
SplitFrom(text, i, current) ==
  IF i > Len(text) THEN << current >>
  ELSE IF IsSpace(text[i]) /\ i > 1 /\ text[i - 1] \in Terminators
       THEN << current >> \o SplitFrom(text, SkipSpace(text, i), << >>)
       ELSE SplitFrom(text, i + 1, Append(current, text[i]))

Split(text) == SplitFrom(text, 1, << >>)

\* str.strip()
RECURSIVE LStrip(_)
LStrip(text) ==
  IF text # << >> /\ IsSpace(Head(text)) THEN LStrip(Tail(text)) ELSE text

RECURSIVE RStrip(_)
RStrip(text) ==
  IF text # << >> /\ IsSpace(text[Len(text)])
  THEN RStrip(SubSeq(text, 1, Len(text) - 1)) ELSE text

Strip(text) == LStrip(RStrip(text))

\* the end of the run of letter tokens that starts at i
RECURSIVE RunEnd(_, _)
RunEnd(text, i) ==
  IF i < Len(text) /\ IsLetters(text[i + 1]) THEN RunEnd(text, i + 1) ELSE i

RECURSIVE TotalLen(_)
TotalLen(word) ==
  IF word = << >> THEN 0 ELSE CharLen(Head(word)) + TotalLen(Tail(word))

\* set(word.lower() for word in re.findall(r'\b\w{4,}\b', text))
WordsOf(text) ==
  LET starts == { i \in 1..Len(text) :
                    /\ IsLetters(text[i])
                    /\ i = 1 \/ ~IsLetters(text[i - 1]) }
      word(i) == SubSeq(text, i, RunEnd(text, i))
  IN { [k \in 1..Len(word(i)) |-> LowerToken(word(i)[k])] :
         i \in { j \in starts : TotalLen(word(j)) >= 4 } }

\* a test that divides whatever the answer holds
Relevance_Unguarded(sentence_words, answer_words) ==
  IF answer_words = { } THEN "ZeroDivisionError"
  ELSE IF 10 * Cardinality(sentence_words \cap answer_words)
            > 4 * Cardinality(answer_words)
       THEN "relevant" ELSE "other"

\* a test that also marks a ratio of exactly 0.4
Relevance_AtLeast(sentence_words, answer_words) ==
  IF answer_words = { } THEN "other"
  ELSE IF 10 * Cardinality(sentence_words \cap answer_words)
            >= 4 * Cardinality(answer_words)
       THEN "relevant" ELSE "other"

\* answer_words and len(sentence_words & answer_words) / len(answer_words) > 0.4
\* (the quotient of two small integers and the literal 0.4 are both rounded
\* to the nearest double, which keeps their order and makes 2/5 equal 0.4)
Relevance(sentence_words, answer_words) ==
  IF answer_words = { } THEN "other"
  ELSE IF 10 * Cardinality(sentence_words \cap answer_words)
            > 4 * Cardinality(answer_words)
       THEN "relevant" ELSE "other"

\* " ".join(parts)
RECURSIVE JoinSpace(_)
JoinSpace(parts) ==
  IF parts = << >> THEN << >>
  ELSE IF Len(parts) = 1 THEN parts[1]
  ELSE parts[1] \o << " " >> \o JoinSpace(Tail(parts))

_highlight_relevant_sentences(answer, context) ==
  LET context_sentences == Split(context)
      answer_words == WordsOf(answer)
      verdict(sentence) == Relevance(WordsOf(sentence), answer_words)
      part(sentence) ==
        IF verdict(sentence) = "relevant"
        THEN << "<strong>" >> \o Strip(sentence) \o << "</strong>" >>
        ELSE Strip(sentence)
  IN IF \E k \in 1..Len(context_sentences) :
          verdict(context_sentences[k]) = "ZeroDivisionError"
     THEN [raised |-> TRUE, value |-> << >>]
     ELSE [raised |-> FALSE,
           value |-> JoinSpace([k \in 1..Len(context_sentences) |->
                                  part(context_sentences[k])])]

(***************************************************************************)
(* SpecHighlight: one call of the highlighter                              *)
(***************************************************************************)

ContextTokens == { "casa", "sol", ".", " ", "\n" }

RECURSIVE TextsUpTo(_, _)
TextsUpTo(S, n) ==
  IF n = 0 THEN { << >> }
  ELSE LET shorter == TextsUpTo(S, n - 1)
       IN shorter \cup { Append(q, x) : q \in shorter, x \in S }

Contexts == TextsUpTo(ContextTokens, MaxContext)

Answers ==
  { << >>, << "sol" >>, << "Casa", "." >>, << "casa", " ", "luna" >> }

HighlightInit ==
  /\ payload = PayloadBraces
  /\ on_token_usage = TRUE
  /\ pos = 0
  /\ scan = ScanInit
  /\ gem_pc = "done"
  /\ ChatIdle
  /\ EmbIdle
  /\ SearchIdle
  /\ fn_call \in [fn : { "_highlight_relevant_sentences" }, answer : Answers,
                  context : Contexts]
  /\ fn_result = [raised |-> FALSE, value |-> << >>]
  /\ fn_pc = "called"
  /\ LoopIdle
  /\ TiersIdle
  /\ UsageIdle
  /\ RestIdle

Highlight ==
  /\ fn_pc = "called"
  /\ fn_call.fn = "_highlight_relevant_sentences"
  /\ fn_result' = _highlight_relevant_sentences(fn_call.answer, fn_call.context)
  /\ fn_pc' = "returned"
  /\ UNCHANGED << gemVars, chatVars, embVars, searchVars, fn_call, loopVars, tierVars, usageVars, cancelVars, depVars >>

HighlightNext == Highlight

SpecHighlight == HighlightInit /\ [][HighlightNext]_vars

Highlighted ==
  fn_pc = "returned" /\ fn_call.fn = "_highlight_relevant_sentences"

\* the context with every whitespace run that follows a terminator replaced
\* by one space
RECURSIVE Squeezed(_, _)
Squeezed(text, i) ==
  IF i > Len(text) THEN << >>
  ELSE IF IsSpace(text[i]) /\ i > 1 /\ text[i - 1] \in Terminators
       THEN << " " >> \o Squeezed(text, SkipSpace(text, i))
       ELSE << text[i] >> \o Squeezed(text, i + 1)

\* whitespace at the end of a text that follows no terminator
RECURSIVE DropLooseEnd(_)
DropLooseEnd(text) ==
  IF /\ text # << >>
     /\ IsSpace(text[Len(text)])
     /\ Len(text) = 1 \/ text[Len(text) - 1] \notin Terminators
  THEN DropLooseEnd(SubSeq(text, 1, Len(text) - 1))
  ELSE text

Normalised(text) == DropLooseEnd(Squeezed(LStrip(text), 1))

Marked(text) ==
  \E k \in 1..Len(text) : text[k] \in { "<strong>", "</strong>" }

\* C15 as stated: with an empty answer the highlighter returns the context
\* unmodified: equal to the input, nothing marked, no error.
C15_EmptyAnswerReturnsContext ==
  (Highlighted /\ fn_call.answer = << >>) =>
    /\ ~fn_result.raised
    /\ ~Marked(fn_result.value)
    /\ fn_result.value = fn_call.context

\* C15 amended: with an empty answer the highlighter raises nothing, marks
\* nothing and returns the context with leading whitespace removed, every
\* whitespace run that follows '.', '!' or '?' replaced by one space and
\* trailing whitespace that follows no such mark removed.
C15_EmptyAnswerNormalisesContext ==
  (Highlighted /\ fn_call.answer = << >>) =>
    /\ ~fn_result.raised
    /\ ~Marked(fn_result.value)
    /\ fn_result.value = Normalised(fn_call.context)

C15_Witness ==
  /\ Highlighted
  /\ fn_call.answer = << >>
  /\ fn_call.context = << "casa", ".", "\n", "sol" >>
  /\ fn_result.value = << "casa", ".", " ", "sol" >>


(***************************************************************************)
(* Order of the fragments of one /chat/search stream                       *)
(***************************************************************************)

IsPrefixOf(p, q) == Len(p) <= Len(q) /\ SubSeq(q, 1, Len(p)) = p

\* C16: for every provider and every sequence of upstream payloads, the text
\* fragments reach the caller of the /chat/search stream in the order the
\* upstream produced them: what generate_stream has yielded is a prefix of
\* the upstream's fragments, all of them while the stream is being read, and
\* the response carries the yielded items chunk by chunk in the same order.
C16_FragmentsInUpstreamOrder ==
  /\ IsPrefixOf(TextsOf(yielded), sent_texts)
  /\ pc = "streaming" => TextsOf(yielded) = sent_texts
  /\ pc \in { "streaming", "stream_end", "done" } =>
       /\ Len(response) >= Len(yielded)
       /\ \A j \in 1..Len(yielded) : response[j] = Chunk(yielded[j].text)

C16_Witness ==
  /\ pc = "streaming"
  /\ nlines >= 2
  /\ Len(sent_texts) >= 2
  /\ sent_texts[1] # sent_texts[2]
  /\ TextsOf(yielded) = sent_texts
  /\ Len(response) = Len(yielded)


\* C17: when the user has no credential, generate_answer yields exactly the
\* fixed instructive message and ends; no provider is obtained, no
\* generate_stream call is made and no response status is ever received,
\* whatever the provider id.
C17_NoKeyFailsFast ==
  ~request.api_key =>
    /\ calls.generate_stream = 0
    /\ ai_provider = ""
    /\ status_code = 0
    /\ nlines = 0
    /\ usage_calls = << >>
    /\ calls.generate_answer > 0 =>
         /\ yielded = << NoApiKeyItem >>
         /\ pc \in { "stream_end", "done" }
         /\ response[1] = Chunk(NoApiKeyItem.text)

C17_Witness ==
  /\ ~request.api_key
  /\ request.provider = "ollama"
  /\ pc = "done"
  /\ calls.generate_answer = 1
  /\ yielded = << NoApiKeyItem >>


(***************************************************************************)
(* SpecLoop: concurrent /chat/search requests on one asyncio event loop    *)
(*                                                                         *)
(* search_endpoint and the response generator are coroutines of the one    *)
(* loop thread.  A coroutine holds the thread from the moment it is        *)
(* scheduled until its next await that has to wait; a synchronous call     *)
(* made in its body runs on that thread.  task_pc[t] names the call in     *)
(* progress while the call has not returned.                               *)
(***************************************************************************)

NumRequests == 3

Tasks == 1..NumRequests

\* the synchronous calls of the request path: model.encode / Redis,
\* db.execute of both queries, db.commit
BlockingCalls == { "create_embeddings", "hybrid_search", "db.commit" }

LoopInit ==
  /\ payload = PayloadBraces
  /\ on_token_usage = TRUE
  /\ pos = 0
  /\ scan = ScanInit
  /\ gem_pc = "done"
  /\ ChatIdle
  /\ EmbIdle
  /\ SearchIdle
  /\ PureIdle
  /\ task_pc = [t \in Tasks |-> "pending"]
  /\ on_loop = 0
  /\ TiersIdle
  /\ UsageIdle
  /\ RestIdle

\* the loop schedules the endpoint coroutine, which calls
\* embedding_system.create_embeddings([query]) in its body
StartRequest(t) ==
  /\ on_loop = 0
  /\ task_pc[t] = "pending"
  /\ on_loop' = t
  /\ task_pc' = [task_pc EXCEPT ![t] = "create_embeddings"]
  /\ UNCHANGED << gemVars, chatVars, embVars, searchVars, pureVars, tierVars, usageVars, cancelVars, depVars >>

\* create_embeddings returns; the coroutine goes on to search_engine.hybrid_search
EmbeddingReturns(t) ==
  /\ on_loop = t
  /\ task_pc[t] = "create_embeddings"
  /\ task_pc' = [task_pc EXCEPT ![t] = "hybrid_search"]
  /\ UNCHANGED << gemVars, chatVars, embVars, searchVars, pureVars, tierVars, usageVars, cancelVars, depVars, on_loop >>

\* hybrid_search returns; the endpoint returns its StreamingResponse, whose
\* generator awaits the provider's first bytes
SearchReturns(t) ==
  /\ on_loop = t
  /\ task_pc[t] = "hybrid_search"
  /\ task_pc' = [task_pc EXCEPT ![t] = "awaiting_provider"]
  /\ on_loop' = 0
  /\ UNCHANGED << gemVars, chatVars, embVars, searchVars, pureVars, tierVars, usageVars, cancelVars, depVars >>

\* bytes of the provider arrive on the socket
ChunkArrives(t) ==
  /\ task_pc[t] \in { "awaiting_provider", "awaiting_after_usage" }
  /\ task_pc' = [task_pc EXCEPT ![t] = "ready"]
  /\ UNCHANGED << gemVars, chatVars, embVars, searchVars, pureVars, tierVars, usageVars, cancelVars, depVars, on_loop >>

\* the loop resumes the generator: it yields the fragment and awaits again,
\* or it awaits on_token_usage, whose body calls db.commit()
ResumeStream(t) ==
  /\ on_loop = 0
  /\ task_pc[t] = "ready"
  /\ \/ /\ task_pc' = [task_pc EXCEPT ![t] = "awaiting_provider"]
        /\ UNCHANGED on_loop
     \/ /\ task_pc' = [task_pc EXCEPT ![t] = "db.commit"]
        /\ on_loop' = t
  /\ UNCHANGED << gemVars, chatVars, embVars, searchVars, pureVars, tierVars, usageVars, cancelVars, depVars >>

\* db.commit() returns with the usage recorded; the generator awaits the
\* provider again
CommitReturns(t) ==
  /\ on_loop = t
  /\ task_pc[t] = "db.commit"
  /\ task_pc' = [task_pc EXCEPT ![t] = "awaiting_after_usage"]
  /\ on_loop' = 0
  /\ UNCHANGED << gemVars, chatVars, embVars, searchVars, pureVars, tierVars, usageVars, cancelVars, depVars >>

\* the provider stream ends and the generator finishes
StreamCloses(t) ==
  /\ on_loop = 0
  /\ task_pc[t] = "ready"
  /\ task_pc' = [task_pc EXCEPT ![t] = "done"]
  /\ UNCHANGED << gemVars, chatVars, embVars, searchVars, pureVars, tierVars, usageVars, cancelVars, depVars, on_loop >>

LoopNext ==
  \E t \in Tasks :
    \/ StartRequest(t)
    \/ EmbeddingReturns(t)
    \/ SearchReturns(t)
    \/ ChunkArrives(t)
    \/ ResumeStream(t)
    \/ CommitReturns(t)
    \/ StreamCloses(t)

SpecLoop == LoopInit /\ [][LoopNext]_vars

\* a request the loop could run now if its thread were free
Runnable(t) == task_pc[t] \in { "pending", "ready" }

\* C18: while one request is inside its embedding or store call, the call
\* does not occupy the event loop's thread, so every other runnable request
\* can be scheduled.
C18_BlockingCallsOffLoop ==
  \A t \in Tasks :
    task_pc[t] \in BlockingCalls =>
      /\ on_loop # t
      /\ \A q \in Tasks \ { t } :
           Runnable(q) => ENABLED (StartRequest(q) \/ ResumeStream(q))


(***************************************************************************)
(* SpecFactory: successive ProviderFactory.get_provider calls              *)
(*                                                                         *)
(* fn_call is the list of ids passed so far, fn_result the list of the     *)
(* objects returned: the class and the identity of the object, which is    *)
(* the number of the allocation that made it.                              *)
(***************************************************************************)

MaxCalls == 2

ProviderIds ==
  ProviderClasses \cup
    { "GEMINI", "Gemini", "OpenAI", "OPENAI", "Anthropic", "CEREBRAS",
      "oLLaMa", "mistral", "Mistral", " Gemini", "" }

\* provider_class(): a new object of the class
NewInstance(provider_class, made) == [class |-> provider_class, oid |-> made + 1]

FactoryInit ==
  /\ payload = PayloadBraces
  /\ on_token_usage = TRUE
  /\ pos = 0
  /\ scan = ScanInit
  /\ gem_pc = "done"
  /\ ChatIdle
  /\ EmbIdle
  /\ SearchIdle
  /\ LoopIdle
  /\ TiersIdle
  /\ UsageIdle
  /\ RestIdle
  /\ fn_call = << >>
  /\ fn_result = << >>
  /\ fn_pc = "idle"

GetProvider ==
  /\ Len(fn_call) < MaxCalls
  /\ \E provider_id \in ProviderIds :
       /\ fn_call' = Append(fn_call, provider_id)
       /\ fn_result' = Append(fn_result,
                              NewInstance(get_provider(provider_id),
                                          Len(fn_result)))
  /\ fn_pc' = "returned"
  /\ UNCHANGED << gemVars, chatVars, embVars, searchVars, loopVars, tierVars, usageVars, cancelVars, depVars >>

FactoryNext == GetProvider

SpecFactory == FactoryInit /\ [][FactoryNext]_vars

\* the registered name an id spells when letter case is ignored, "" if none
SpelledProvider(id) ==
  CASE id \in { "gemini", "GEMINI", "Gemini" } -> "gemini"
    [] id \in { "openai", "OpenAI", "OPENAI" } -> "openai"
    [] id \in { "anthropic", "Anthropic" } -> "anthropic"
    [] id \in { "cerebras", "CEREBRAS" } -> "cerebras"
    [] id \in { "ollama", "oLLaMa" } -> "ollama"
    [] OTHER -> ""

\* C19: for every string id, get_provider returns a fresh instance of the
\* provider registered under the lower-cased id, whatever the letter case,
\* and a GeminiProvider for every id that matches no registered provider.
C19_FactoryLookup ==
  \A k \in 1..Len(fn_call) :
    /\ fn_result[k].class =
         IF SpelledProvider(fn_call[k]) # "" THEN SpelledProvider(fn_call[k])
         ELSE "gemini"
    /\ \A j \in 1..Len(fn_call) : fn_result[j].oid = fn_result[k].oid => j = k

C19_Witness ==
  /\ Len(fn_call) = 2
  /\ fn_call[1] = "OpenAI"
  /\ fn_call[2] = "OpenAI"
  /\ fn_result[1].class = "openai"
  /\ fn_result[2].class = "openai"
  /\ fn_result[1] # fn_result[2]


\* C20: when the upstream of an HTTP-200 stream has sent a malformed payload,
\* generate_stream ends with a single terminal error or informational item
\* for it instead of dropping it silently.
C20_MalformedPayloadReported ==
  (StreamOver /\ status_code = 200 /\ failures.malformed) =>
    /\ Len(ErrorItems(yielded)) = 1
    /\ yielded[Len(yielded)].kind \in ErrorKinds


(***************************************************************************)
(* Properties of the Gemini scanner on whole streams                       *)
(***************************************************************************)

\* the well-formed streams whose strings hold braces or escaped characters
BracedPayloads == { PayloadBraces, PayloadEscapes, PayloadBraceAccent }

\* the text parts of the objects of a stream, in order
TextParts(stream) ==
  CASE stream = PayloadBraces -> << Yield(<< "}", "\"", "{" >>) >>
    [] stream = PayloadEscapes -> << Yield(<< "{" >>), Yield(<< "\\" >>) >>
    [] stream = PayloadBraceAccent -> << Yield(<< "{", "U+00E9" >>) >>
    [] stream = PayloadArray -> << Yield(<< "U+00E9" >>) >>
    [] stream \in { PayloadInvalidFirst, PayloadStrayBrace } ->
         << Yield(<< "a" >>) >>

\* the offsets, in characters, of the closing braces of the top-level
\* objects of a stream
ObjectEnds(stream) ==
  CASE stream = PayloadBraces ->
         << Len(TextObject(<< "}", "\\", "\"", "{" >>)), Len(PayloadBraces) >>
    [] stream = PayloadEscapes ->
         << Len(TextObject(<< "{" >>)), Len(PayloadEscapes) >>
    [] stream = PayloadBraceAccent -> << Len(PayloadBraceAccent) - 1 >>

\* C21: for every well-formed stream of concatenated objects whose strings
\* hold braces or escaped quotes, the scanner calls json.loads only at the
\* closing brace of a top-level object and yields each object's text parts
\* exactly once, in order.
C21_ParsesAtObjectEndsOnly ==
  (gem_pc = "done" /\ payload \in BracedPayloads) =>
    /\ Fragments(scan.log) = TextParts(payload)
    /\ \A k \in 1..Len(scan.attempts) :
         \E j \in 1..Len(ObjectEnds(payload)) :
           scan.attempts[k] = ObjectEnds(payload)[j]

\* C22: after the scanner reached depth zero on a buffer that is not JSON,
\* or met a stray closing brace, the well-formed objects that follow in the
\* stream are still parsed and their text parts yielded.
C22_RecoversAfterInvalidObject ==
  (gem_pc = "done" /\ payload \in { PayloadInvalidFirst, PayloadStrayBrace }) =>
    Fragments(scan.log) = TextParts(payload)

(***************************************************************************)
(* SpecTiers: create_embeddings in the API server and in the Celery        *)
(* worker.  Each process has its own AdvancedEmbeddingSystem, hence its    *)
(* own LRU, and both talk to the same Redis.  One step is one cache        *)
(* operation or the one model call, so the two calls interleave between    *)
(* any two operations and every operation on Redis fails on its own.       *)
(***************************************************************************)

MaxTierBatch == 2
MaxRuns == 1

Processes == { "api", "worker" }

\* two texts whose cache keys collide and one that stands alone
TierTexts == { "a", "b", "d" }

TierBatches == SeqsUpTo(TierTexts, MaxTierBatch) \cup { << NotAString >> }

\* __init__ of a process whose ping of Redis succeeded or not
NewSystem(enabled) ==
  [lru_cache |-> << >>, lru_keys |-> << >>, redis |-> << >>,
   redis_enabled |-> enabled, recency |-> << >>, inserted |-> << >>,
   evictions |-> << >>]

NoCall ==
  [texts |-> << >>, i |-> 0, j |-> 0, results |-> << >>, sources |-> << >>,
   indices_to_compute |-> << >>, batches |-> << >>, writes |-> << >>,
   read_failed |-> FALSE, raised |-> FALSE, before |-> NewSystem(FALSE)]

\* the embedding system of process p, seeing Redis as it is now
SystemOf(p) == [proc[p].es EXCEPT !.redis = shared_redis]

\* what is kept of an embedding system between two steps of its process
Local(es) == [es EXCEPT !.redis = << >>]

TiersInit ==
  /\ payload = PayloadBraces
  /\ on_token_usage = TRUE
  /\ pos = 0
  /\ scan = ScanInit
  /\ gem_pc = "done"
  /\ ChatIdle
  /\ EmbIdle
  /\ SearchIdle
  /\ PureIdle
  /\ LoopIdle
  /\ UsageIdle
  /\ RestIdle
  /\ \E on \in [Processes -> BOOLEAN] :
       proc = [p \in Processes |->
                 [es |-> NewSystem(on[p]), pc |-> "idle", runs |-> 0,
                  call |-> NoCall]]
  /\ shared_redis = << >>

\* create_embeddings is entered: the guard, then Fase 1 starts
BeginCall(p, texts) ==
  /\ proc[p].pc \in { "idle", "returned" }
  /\ proc[p].runs < MaxRuns
  /\ LET invalid == texts = << >>
                      \/ \E i \in 1..Len(texts) : ~isinstance_str(texts[i])
     IN proc' = [proc EXCEPT
                   ![p].pc = IF invalid THEN "returned" ELSE "fase1",
                   ![p].runs = @ + 1,
                   ![p].call = [NoCall EXCEPT !.texts = texts, !.i = 1,
                                              !.before = proc[p].es]]
  /\ UNCHANGED << shared_redis, gemVars, chatVars, embVars, searchVars, pureVars, loopVars, usageVars, cancelVars, depVars >>

\* one iteration of the Fase 1 loop: _get_cached_embedding of one text
CacheLookup(p, read_fails) ==
  /\ proc[p].pc = "fase1"
  /\ read_fails => proc[p].es.redis_enabled
  /\ LET call == proc[p].call
         c == _get_cached_embedding(SystemOf(p), call.texts[call.i], read_fails)
         indices == IF c.found THEN call.indices_to_compute
                    ELSE Append(call.indices_to_compute, call.i)
         last == call.i = Len(call.texts)
     IN /\ proc' = [proc EXCEPT
                      ![p].es = Local(c.es),
                      ![p].pc = IF ~last THEN "fase1"
                                ELSE IF indices = << >> THEN "returned"
                                ELSE "encode",
                      ![p].call = [call EXCEPT
                                     !.i = @ + 1,
                                     !.results = Append(@, c.value),
                                     !.sources = Append(@, c.source),
                                     !.indices_to_compute = indices,
                                     !.read_failed = @ \/ read_fails]]
        /\ shared_redis' = c.es.redis
  /\ UNCHANGED << gemVars, chatVars, embVars, searchVars, pureVars, loopVars, usageVars, cancelVars, depVars >>

\* Fase 2: the one self.model.encode call on the texts that missed
ModelEncode(p, encode_fails) ==
  /\ proc[p].pc = "encode"
  /\ LET call == proc[p].call
         texts_to_compute == [k \in 1..Len(call.indices_to_compute) |->
                                call.texts[call.indices_to_compute[k]]]
     IN proc' = [proc EXCEPT
                   ![p].pc = IF encode_fails THEN "returned" ELSE "store",
                   ![p].call = [call EXCEPT
                                  !.batches = Append(@, texts_to_compute),
                                  !.j = 1,
                                  !.raised = encode_fails,
                                  !.results = IF encode_fails THEN << >> ELSE @]]
  /\ UNCHANGED << shared_redis, gemVars, chatVars, embVars, searchVars, pureVars, loopVars, usageVars, cancelVars, depVars >>

\* one iteration of the loop over the new embeddings: the result slot is
\* filled and _cache_embedding stores the vector
CacheStore(p, write_fails) ==
  /\ proc[p].pc = "store"
  /\ write_fails => proc[p].es.redis_enabled
  /\ LET call == proc[p].call
         idx == call.indices_to_compute[call.j]
         embedding == Embed(call.texts[idx])
         cache_key == _get_cache_key(call.texts[idx])
         after == _cache_embedding(SystemOf(p), call.texts[idx], embedding, write_fails)
         written == [text |-> call.texts[idx],
                     lru |-> /\ cache_key \in DOMAIN after.lru_cache
                             /\ after.lru_cache[cache_key] = embedding,
                     shared |-> /\ cache_key \in DOMAIN after.redis
                                /\ after.redis[cache_key] = json_dumps(embedding),
                     tried |-> proc[p].es.redis_enabled,
                     failed |-> write_fails]
     IN /\ proc' = [proc EXCEPT
                      ![p].es = Local(after),
                      ![p].pc = IF call.j = Len(call.indices_to_compute)
                                THEN "returned" ELSE "store",
                      ![p].call = [call EXCEPT
                                     !.j = @ + 1,
                                     !.results[idx] = embedding,
                                     !.writes = Append(@, written)]]
        /\ shared_redis' = after.redis
  /\ UNCHANGED << gemVars, chatVars, embVars, searchVars, pureVars, loopVars, usageVars, cancelVars, depVars >>

TiersNext ==
  \/ \E p \in Processes, texts \in TierBatches : BeginCall(p, texts)
  \/ \E p \in Processes, read_fails \in BOOLEAN : CacheLookup(p, read_fails)
  \/ \E p \in Processes, encode_fails \in BOOLEAN : ModelEncode(p, encode_fails)
  \/ \E p \in Processes, write_fails \in BOOLEAN : CacheStore(p, write_fails)

SpecTiers == TiersInit /\ [][TiersNext]_vars

\* a create_embeddings call of process p has returned or raised
CallOver(p) == proc[p].pc = "returned" /\ proc[p].runs > 0

\* what the call of process p returns when its shared tier is disabled
WithoutSharedTier(p) ==
  create_embeddings([proc[p].call.before EXCEPT !.redis_enabled = FALSE],
                    proc[p].call.texts, FALSE, FALSE, FALSE).results

\* C23: whichever reads and writes of the shared tier fail during a
\* create_embeddings call, the call raises nothing because of them and
\* returns the vectors it would return with the shared tier disabled.
C23_SharedTierFailuresAreInvisible ==
  \A p \in Processes :
    CallOver(p) =>
      /\ proc[p].call.raised => proc[p].call.batches # << >>
      /\ ~proc[p].call.raised => proc[p].call.results = WithoutSharedTier(p)

\* the texts of a call that were found in neither tier, in input order
Missed(call) ==
  LET positions == SelectSeq([i \in 1..Len(call.sources) |-> i],
                             LAMBDA i : call.sources[i] = "model")
  IN [k \in 1..Len(positions) |-> call.texts[positions[k]]]

\* the model is called at most once, with the texts that missed, and not at
\* all when nothing missed; the computed texts are the ones stored
OneModelCall(call) ==
  /\ Len(call.batches) <= 1
  /\ call.batches # << >> => call.batches[1] = Missed(call)
  /\ Missed(call) = << >> => call.batches = << >>
  /\ ~call.raised => [k \in 1..Len(call.writes) |-> call.writes[k].text] = Missed(call)

C25_SharedTierConsistent ==
  /\ \A key \in DOMAIN shared_redis :
       \E text \in TierTexts :
         /\ _get_cache_key(text) = key
         /\ shared_redis[key] = json_dumps(Embed(text))
  /\ \A p \in Processes :
       (/\ CallOver(p)
        /\ ~proc[p].call.raised
        /\ \A i \in 1..Len(proc[p].call.texts) : isinstance_str(proc[p].call.texts[i]))
         => proc[p].call.results =
              [i \in 1..Len(proc[p].call.texts) |-> Embed(proc[p].call.texts[i])]

(***************************************************************************)
(* SpecUsage: answer streams of one user that run at the same time.  Each  *)
(* request has its own Session (get_db) and its own User object, loaded by *)
(* get_current_user; update_token_usage adds to the object's attribute     *)
(* and commits, which writes the attribute's value to the row.  The        *)
(* sessionmaker keeps expire_on_commit, so an attribute is read from the   *)
(* row again after the session's own commit, and only then.                *)
(***************************************************************************)

NumStreams == 2
MaxUpdates == 2

Streams == 1..NumStreams
Amounts == { 1, 2 }
InitialUsage == { 0, 3 }

UsageInit ==
  /\ payload = PayloadBraces
  /\ on_token_usage = TRUE
  /\ pos = 0
  /\ scan = ScanInit
  /\ gem_pc = "done"
  /\ ChatIdle
  /\ EmbIdle
  /\ SearchIdle
  /\ PureIdle
  /\ LoopIdle
  /\ TiersIdle
  /\ RestIdle
  /\ \E stored \in InitialUsage :
       users_row = [token_usage |-> stored, initial |-> stored]
  /\ sessions = [s \in Streams |->
                   [pc |-> "pending", expired |-> FALSE, amounts |-> << >>,
                    user |-> [token_usage |-> 0, committed |-> 0,
                              errors_logged |-> 0]]]

\* get_current_user: the request's session selects the user's row
GetCurrentUser(s) ==
  /\ sessions[s].pc = "pending"
  /\ sessions' = [sessions EXCEPT
                    ![s].pc = "streaming",
                    ![s].user.token_usage = users_row.token_usage,
                    ![s].user.committed = users_row.token_usage]
  /\ UNCHANGED << users_row, gemVars, chatVars, embVars, searchVars, pureVars, loopVars, tierVars, cancelVars, depVars >>

\* the provider awaits on_token_usage(tokens): the attribute, read from the
\* row only if the session's last commit expired it, is increased and the
\* commit writes it to the row
UpdateTokenUsage(s, tokens, commit_fails) ==
  /\ sessions[s].pc = "streaming"
  /\ Len(sessions[s].amounts) < MaxUpdates
  /\ LET loaded == IF sessions[s].expired
                   THEN [sessions[s].user EXCEPT
                           !.token_usage = users_row.token_usage]
                   ELSE sessions[s].user
         r == update_token_usage(loaded, tokens, commit_fails)
     IN /\ sessions' = [sessions EXCEPT
                          ![s].user = r.user,
                          ![s].expired = ~commit_fails,
                          ![s].amounts = Append(@, tokens)]
        /\ users_row' = IF commit_fails THEN users_row
                        ELSE [users_row EXCEPT !.token_usage = r.user.token_usage]
  /\ UNCHANGED << gemVars, chatVars, embVars, searchVars, pureVars, loopVars, tierVars, cancelVars, depVars >>

\* the provider stream of the request ends
StreamFinishes(s) ==
  /\ sessions[s].pc = "streaming"
  /\ sessions' = [sessions EXCEPT ![s].pc = "finished"]
  /\ UNCHANGED << users_row, gemVars, chatVars, embVars, searchVars, pureVars, loopVars, tierVars, cancelVars, depVars >>

UsageNext ==
  \/ \E s \in Streams : GetCurrentUser(s)
  \/ \E s \in Streams, tokens \in Amounts, commit_fails \in BOOLEAN : UpdateTokenUsage(s, tokens, commit_fails)
  \/ \E s \in Streams : StreamFinishes(s)

SpecUsage == UsageInit /\ [][UsageNext]_vars

RECURSIVE SumSeq(_)
SumSeq(q) == IF q = << >> THEN 0 ELSE Head(q) + SumSeq(Tail(q))

RECURSIVE PassedUpTo(_)
PassedUpTo(n) == IF n = 0 THEN 0 ELSE SumSeq(sessions[n].amounts) + PassedUpTo(n - 1)

\* C26: once all concurrent answer streams of the user have finished, with
\* no commit having failed, the stored token_usage is its initial value plus
\* the sum of every amount passed to the callbacks.
C26_NoUpdateLost ==
  (\A s \in Streams : /\ sessions[s].pc = "finished"
                      /\ sessions[s].user.errors_logged = 0)
    => users_row.token_usage = users_row.initial + PassedUpTo(NumStreams)

\* the bytes of the first n chunks of a response, one after the other
RECURSIVE BytesOf(_, _)
BytesOf(chunks, n) ==
  IF n = 0 THEN << >> ELSE BytesOf(chunks, n - 1) \o chunks[n].bytes

\* C27: in every /chat/search stream whose provider stream ends, normally or
\* with an error message, the separator and the metadata record are emitted
\* exactly once, after the last text fragment, and the answer text handed to
\* the highlighter is the concatenation of the forwarded fragments in order.
C27_MetadataAfterLastFragment ==
  /\ pc \in { "streaming", "stream_end" } =>
       /\ Len(response) = Len(yielded)
       /\ \A j \in 1..Len(response) : response[j] = Chunk(yielded[j].text)
  /\ (pc = "done" /\ ~NoResults(request.search_results)) =>
       LET n == Len(response) - 2 IN
       /\ n = Len(yielded)
       /\ \A j \in 1..n : response[j] = Chunk(yielded[j].text)
       /\ response[n + 1] = Chunk(JSON_SEPARATOR)
       /\ response[n + 2].kind = "json"
       /\ ~response[n + 2].highlighted_source.null
       /\ Utf8Encode(response[n + 2].highlighted_source.v.answer) = BytesOf(response, n)

\* a finished stream that forwarded two different fragments and then an
\* error message before its metadata
C27_Witness ==
  /\ pc = "done"
  /\ Len(yielded) >= 3
  /\ yielded[1].text # yielded[2].text
  /\ yielded[Len(yielded)].kind \in ErrorKinds
  /\ response[Len(response)].kind = "json"

\* C28: in the OpenAI, Cerebras and Anthropic implementations, once a
\* `data: [DONE]` line has been read the stream ends: no further fragment is
\* yielded and no token-usage callback is made, whatever the upstream sends
\* afterwards.
C28_DoneEndsTheStream ==
  (ai_provider \in SseProviders /\ failures.done_read) =>
    /\ pc # "streaming"
    /\ Len(yielded) = failures.items_at_done
    /\ Len(usage_calls) = failures.usage_at_done

\* C29: hybrid_search returns at most top_k candidates, as many as the fused
\* set allows, and truncates only after re-ranking: with a re-ranker no
\* candidate of the fused set that is left out has a strictly higher rerank
\* score than a candidate that is returned.
C29_TruncatesAfterRerank ==
  Returned =>
    LET fused == search_out.combined_results
        results == search_out.results
    IN /\ Len(results) <= search_in.top_k
       /\ Len(results) = IF Len(fused) < search_in.top_k THEN Len(fused)
                         ELSE search_in.top_k
       /\ Len(fused) <= 2 * search_in.top_k
       /\ \A i \in 1..Len(results) : \E k \in 1..Len(fused) : results[i] = fused[k]
       /\ search_in.reranker =>
            \A k \in 1..Len(fused), i \in 1..Len(results) :
              fused[k].id \notin IdsOf(results)
                => fused[k].rerank_score <= results[i].rerank_score

\* a candidate beyond position top_k of the fused list is returned and one
\* of the first top_k, with a lower score, is left out
C29_Witness ==
  /\ Returned
  /\ search_in.reranker
  /\ search_in.top_k = 2
  /\ Len(search_out.combined_results) = 3
  /\ search_out.combined_results[3].id \in IdsOf(search_out.results)
  /\ search_out.combined_results[1].id \notin IdsOf(search_out.results)

\* C30: an id returned by both sub-searches is represented by its
\* vector-search row, and without a re-ranker the result is the vector-search
\* results in their order followed by the lexical-only results in their
\* order, truncated to top_k.
C30_VectorRowsFirst ==
  Returned =>
    LET semantic == search_out.semantic_results
        lexical_only ==
          SelectSeq(search_out.keyword_results,
                    LAMBDA r : \A k \in 1..Len(semantic) : semantic[k].id # r.id)
        in_order == semantic \o lexical_only
    IN /\ \A i \in 1..Len(search_out.results) :
            search_out.results[i].id \in IdsOf(semantic)
              => search_out.results[i].via = "semantic"
       /\ ~search_in.reranker =>
            /\ Len(search_out.results) <= search_in.top_k
            /\ Len(search_out.results) = search_in.top_k
                 \/ Len(search_out.results) = Len(in_order)
            /\ \A i \in 1..Len(search_out.results) :
                 search_out.results[i] = in_order[i]

\* both sub-searches return two rows, one of them the same chunk, at the
\* head of the lexical list, and no re-ranker is loaded
C30_Witness ==
  /\ Returned
  /\ ~search_in.reranker
  /\ Len(search_out.semantic_results) = 2
  /\ Len(search_out.keyword_results) = 2
  /\ search_out.keyword_results[1].id = search_out.semantic_results[2].id
  /\ search_out.keyword_results[2].id \notin IdsOf(search_out.semantic_results)
  /\ Len(search_out.results) = 2

MaxChunks == 4

AgenStart ==
  [pc |-> "connecting", client_open |-> TRUE, response_open |-> FALSE,
   consumer |-> "iterating", thrown |-> "", chunks |-> 0, fragments |-> 0,
   callbacks |-> 0, fragments_at_stop |-> 0, callbacks_at_stop |-> 0]

CancelInit ==
  /\ payload = PayloadBraces
  /\ on_token_usage = TRUE
  /\ pos = 0
  /\ scan = ScanInit
  /\ gem_pc = "done"
  /\ ChatIdle
  /\ EmbIdle
  /\ SearchIdle
  /\ PureIdle
  /\ LoopIdle
  /\ TiersIdle
  /\ UsageIdle
  /\ deps = << >>
  /\ agen = AgenStart

Suspended == agen.pc \in { "connecting", "reading", "at_yield", "at_error_yield" }

\* client.stream(...) is entered and the status line read
ResponseArrives(status) ==
  /\ agen.pc = "connecting"
  /\ agen.consumer = "iterating"
  /\ agen' = IF IsErrorStatus(status)
             THEN [agen EXCEPT !.pc = "at_error_yield", !.response_open = TRUE,
                               !.fragments = @ + 1]
             ELSE [agen EXCEPT !.pc = "reading", !.response_open = TRUE]
  /\ UNCHANGED << gemVars, chatVars, embVars, searchVars, pureVars, loopVars, tierVars, usageVars, depVars >>

\* response.aiter_bytes() gives a chunk: it completes an object with a text
\* part, or one with usageMetadata, or no object
ChunkRead(kind) ==
  /\ agen.pc = "reading"
  /\ agen.consumer = "iterating"
  /\ agen.chunks < MaxChunks
  /\ agen' = CASE kind = "text" ->
                    [agen EXCEPT !.pc = "at_yield", !.chunks = @ + 1,
                                 !.fragments = @ + 1]
                [] kind = "usage" ->
                    [agen EXCEPT !.chunks = @ + 1, !.callbacks = @ + 1]
                [] kind = "partial" -> [agen EXCEPT !.chunks = @ + 1]
  /\ UNCHANGED << gemVars, chatVars, embVars, searchVars, pureVars, loopVars, tierVars, usageVars, depVars >>

\* the read raises: the except clause, outside the response's block and
\* inside the client's, yields the provider's message
ReadFails(exc) ==
  /\ agen.pc = "reading"
  /\ agen.consumer = "iterating"
  /\ agen' = IF Catch(Handlers("gemini"), 1, exc) # ""
             THEN [agen EXCEPT !.pc = "at_error_yield", !.response_open = FALSE,
                               !.fragments = @ + 1]
             ELSE [agen EXCEPT !.pc = "closed", !.response_open = FALSE,
                               !.client_open = FALSE]
  /\ UNCHANGED << gemVars, chatVars, embVars, searchVars, pureVars, loopVars, tierVars, usageVars, depVars >>

\* the upstream body ends: both blocks are left
BodyEnds ==
  /\ agen.pc = "reading"
  /\ agen.consumer = "iterating"
  /\ agen' = [agen EXCEPT !.pc = "returned", !.response_open = FALSE,
                          !.client_open = FALSE]
  /\ UNCHANGED << gemVars, chatVars, embVars, searchVars, pureVars, loopVars, tierVars, usageVars, depVars >>

\* the consumer takes the item and asks for the next one
ConsumerResumes ==
  /\ agen.pc \in { "at_yield", "at_error_yield" }
  /\ agen.consumer = "iterating"
  /\ agen' = IF agen.pc = "at_yield" THEN [agen EXCEPT !.pc = "reading"]
             ELSE [agen EXCEPT !.pc = "returned", !.response_open = FALSE,
                               !.client_open = FALSE]
  /\ UNCHANGED << gemVars, chatVars, embVars, searchVars, pureVars, loopVars, tierVars, usageVars, depVars >>

\* the caller disconnects: the consumer stops iterating
ConsumerStops ==
  /\ Suspended
  /\ agen.consumer = "iterating"
  /\ agen' = [agen EXCEPT
                !.consumer = "stopped",
                !.thrown = IF agen.pc \in { "connecting", "reading" }
                           THEN "CancelledError" ELSE "GeneratorExit",
                !.fragments_at_stop = agen.fragments,
                !.callbacks_at_stop = agen.callbacks]
  /\ UNCHANGED << gemVars, chatVars, embVars, searchVars, pureVars, loopVars, tierVars, usageVars, depVars >>

\* the exception is raised in the generator where it is suspended: the
\* try's except clauses see it unless the generator is already in one, and
\* an exception that none takes leaves both async with blocks
ExceptionThrown ==
  /\ Suspended
  /\ agen.consumer = "stopped"
  /\ agen.thrown # ""
  /\ LET in_try == agen.pc # "at_error_yield"
         kind == IF in_try THEN Catch(Handlers("gemini"), 1, agen.thrown)
                 ELSE ""
     IN agen' = IF kind # ""
                THEN [agen EXCEPT !.pc = "at_error_yield", !.thrown = "GeneratorExit",
                                  !.response_open = FALSE,
                                  !.fragments = @ + 1]
                ELSE [agen EXCEPT !.pc = "closed", !.thrown = "",
                                  !.response_open = FALSE,
                                  !.client_open = FALSE]
  /\ UNCHANGED << gemVars, chatVars, embVars, searchVars, pureVars, loopVars, tierVars, usageVars, depVars >>

CancelNext ==
  \/ \E status \in Statuses : ResponseArrives(status)
  \/ \E kind \in { "text", "usage", "partial" } : ChunkRead(kind)
  \/ \E exc \in StreamFailures : ReadFails(exc)
  \/ BodyEnds
  \/ ConsumerResumes
  \/ ConsumerStops
  \/ ExceptionThrown

\* the event loop runs the cancelled task and the finaliser of a generator
\* that nothing refers to any more
SpecCancel == CancelInit /\ [][CancelNext]_vars /\ WF_vars(ExceptionThrown)

\* C32: if the consumer stops iterating a provider stream mid-way, the
\* upstream HTTP response and the client are eventually closed, and from the
\* moment it stops no further fragment is produced and no token-usage
\* callback is made.
C32_ClosedAfterDisconnect ==
  /\ [](agen.consumer = "stopped" =>
          /\ agen.fragments = agen.fragments_at_stop
          /\ agen.callbacks = agen.callbacks_at_stop)
  /\ (agen.consumer = "stopped")
       ~> (~agen.response_open /\ ~agen.client_open /\ agen.pc = "closed")

\* a consumer that left while the generator was suspended at a yield, after
\* a fragment and a usage report, and whose generator has been closed
C32_Witness ==
  /\ agen.consumer = "stopped"
  /\ agen.pc = "closed"
  /\ agen.fragments >= 2
  /\ agen.callbacks >= 1
  /\ ~agen.response_open
  /\ ~agen.client_open

(***************************************************************************)
(* SpecThreshold: the highlighter on one-sentence contexts and answers     *)
(* built from up to five content words, so that the overlap ratio takes    *)
(* the values around 0.4                                                   *)
(***************************************************************************)

WordOrder == << "casa", "luna", "mesa", "pato", "rosa" >>
ContentWords == { WordOrder[k] : k \in 1..Len(WordOrder) }

\* the words of a set, in WordOrder, with a blank between two of them
RECURSIVE Phrase(_, _)
Phrase(S, k) ==
  IF k > Len(WordOrder) THEN << >>
  ELSE IF WordOrder[k] \notin S THEN Phrase(S, k + 1)
  ELSE LET rest == Phrase(S, k + 1) IN
       << WordOrder[k] >> \o (IF rest = << >> THEN << >> ELSE << " " >> \o rest)

ThresholdAnswers ==
  { Phrase(S, 1) : S \in SUBSET ContentWords }
    \cup { << "Casa", " ", "sol" >>, << "Casa", " ", "luna", " ", "Sol" >> }

ThresholdContexts ==
  { Phrase(S, 1) : S \in SUBSET ContentWords }
    \cup { << "Casa", " ", "sol" >>, << "sol", " ", "pato" >> }

ThresholdInit ==
  /\ payload = PayloadBraces
  /\ on_token_usage = TRUE
  /\ pos = 0
  /\ scan = ScanInit
  /\ gem_pc = "done"
  /\ ChatIdle
  /\ EmbIdle
  /\ SearchIdle
  /\ LoopIdle
  /\ TiersIdle
  /\ UsageIdle
  /\ RestIdle
  /\ fn_call \in [fn : { "_highlight_relevant_sentences" },
                  answer : ThresholdAnswers, context : ThresholdContexts]
  /\ fn_result = [raised |-> FALSE, value |-> << >>]
  /\ fn_pc = "called"

SpecThreshold == ThresholdInit /\ [][HighlightNext]_vars

\* the case-folded words of four characters or more of a text whose words
\* stand apart
Content(text) ==
  { LowerToken(text[k]) :
      k \in { j \in 1..Len(text) : IsLetters(text[j]) /\ CharLen(text[j]) >= 4 } }

Wrapped(sentence) == << "<strong>" >> \o sentence \o << "</strong>" >>

\* C33: for a non-empty set of answer content words, a context sentence is
\* wrapped in emphasis markers if and only if five times the number of
\* content words it shares with the answer exceeds twice the number of
\* answer content words; a ratio of exactly 0.4 is not marked.
C33_MarkedAboveThreshold ==
  (fn_pc = "returned" /\ Content(fn_call.answer) # { }) =>
    LET shared == Content(fn_call.context) \cap Content(fn_call.answer) IN
    /\ ~fn_result.raised
    /\ fn_result.value =
         IF 5 * Cardinality(shared) > 2 * Cardinality(Content(fn_call.answer))
         THEN Wrapped(fn_call.context) ELSE fn_call.context

\* two of five answer words in the sentence, a ratio of exactly 0.4
C33_Witness ==
  /\ fn_pc = "returned"
  /\ Cardinality(Content(fn_call.answer)) = 5
  /\ Cardinality(Content(fn_call.context) \cap Content(fn_call.answer)) = 2
  /\ fn_result.value = fn_call.context

----------------------------------------------------------------------------
(* SpecAccounting: what each provider hands to on_token_usage for one      *)
(* generation whose prompt and completion sizes are known                  *)

MaxTokens == 4

DigitChar(n) ==
  CASE n = 0 -> "0" [] n = 1 -> "1" [] n = 2 -> "2" [] n = 3 -> "3" [] n = 4 -> "4"
    [] n = 5 -> "5" [] n = 6 -> "6" [] n = 7 -> "7" [] n = 8 -> "8" [] n = 9 -> "9"

RECURSIVE Decimal(_)
Decimal(n) ==
  IF n < 10 THEN << DigitChar(n) >>
  ELSE Decimal(n \div 10) \o << DigitChar(n % 10) >>

\* the lines of an HTTP-200 stream for a generation of one text fragment that
\* took prompt_tokens of input and completion_tokens of output, with the usage
\* in the field each generate_stream reads: totalTokenCount and total_tokens
\* are the sum; Anthropic's message_delta carries usage.output_tokens (the
\* input count is in message_start, which the loop skips); Ollama's done line
\* carries eval_count, the number of generated tokens (prompt_eval_count is
\* the input count, which the loop does not read)
UpstreamStream(provider, prompt_tokens, completion_tokens) ==
  CASE provider = "gemini" ->
         << GeminiObject(TextObject(<< "a" >>), << << "a" >> >>),
            GeminiObject(UsageObject(Decimal(prompt_tokens + completion_tokens)),
                         << >>) >>
    [] provider \in { "openai", "cerebras" } ->
         << ChatCompletionLine(TRUE, "json", << Delta(TRUE, << "a" >>) >>, Absent),
            ChatCompletionLine(TRUE, "json", << Delta(FALSE, << >>) >>,
                               prompt_tokens + completion_tokens),
            ChatCompletionLine(TRUE, "[DONE]", << >>, Absent) >>
    [] provider = "anthropic" ->
         << AnthropicLine(TRUE, "json", "message_start", "", << >>, Absent),
            AnthropicLine(TRUE, "json", "content_block_delta", "text_delta",
                          << "a" >>, Absent),
            AnthropicLine(TRUE, "json", "message_delta", "", << >>,
                          completion_tokens) >>
    [] provider = "ollama" ->
         << OllamaLine("json", TRUE, << "a" >>, FALSE, Absent),
            OllamaLine("json", TRUE, << >>, TRUE, completion_tokens) >>

\* async for line in response.aiter_lines(): the events of the whole stream,
\* up to a break or an escaping exception
RECURSIVE StreamEvents(_, _, _)
StreamEvents(provider, lines, j) ==
  IF j > Len(lines) THEN << >>
  ELSE LET e == LineEvents(provider, lines[j], TRUE) IN
       IF IsRaise(e) \/ (Len(e) > 0 /\ e[Len(e)] = Break) THEN e
       ELSE e \o StreamEvents(provider, lines, j + 1)

AccountingInit ==
  /\ payload = PayloadBraces
  /\ on_token_usage = TRUE
  /\ pos = 0
  /\ scan = ScanInit
  /\ gem_pc = "done"
  /\ ChatIdle
  /\ EmbIdle
  /\ SearchIdle
  /\ LoopIdle
  /\ TiersIdle
  /\ UsageIdle
  /\ RestIdle
  /\ fn_call \in [fn : { "generate_stream" }, provider : ProviderClasses,
                  prompt_tokens : 0..MaxTokens, completion_tokens : 0..MaxTokens]
  /\ fn_result = [raised |-> FALSE, value |-> << >>]
  /\ fn_pc = "called"

\* one generate_stream call consumed to its end with a usage callback
GenerateStream ==
  /\ fn_pc = "called"
  /\ fn_call.fn = "generate_stream"
  /\ LET log == StreamEvents(fn_call.provider,
                             UpstreamStream(fn_call.provider, fn_call.prompt_tokens,
                                            fn_call.completion_tokens), 1)
     IN fn_result' = [raised |-> IsRaise(log), value |-> UsageCalls(log)]
  /\ fn_pc' = "returned"
  /\ UNCHANGED << gemVars, chatVars, embVars, searchVars, fn_call, loopVars, tierVars, usageVars, cancelVars, depVars >>

AccountingNext == GenerateStream

SpecAccounting == AccountingInit /\ [][AccountingNext]_vars

\* C34: whatever the provider, every amount handed to on_token_usage is the
\* usage of the whole stream, input tokens plus output tokens
C34_SameQuantityEveryProvider ==
  (fn_pc = "returned" /\ fn_call.fn = "generate_stream") =>
     \A i \in 1..Len(fn_result.value) :
        fn_result.value[i].n = fn_call.prompt_tokens + fn_call.completion_tokens


----------------------------------------------------------------------------
(* The recency list and the dictionary of the in-process LRU               *)

\* C35: after every create_embeddings call the recency list _lru_keys holds
\* no key twice and holds exactly the keys of the _lru_cache dictionary
C35_RecencyListMatchesDict ==
  /\ \A i, j \in 1..Len(lru_keys) : lru_keys[i] = lru_keys[j] => i = j
  /\ { lru_keys[i] : i \in 1..Len(lru_keys) } = DOMAIN lru_cache

\* a repeated call that hit the LRU after a call that evicted from a full one
C35_Witness ==
  /\ emb_pc = "repeated"
  /\ obs1.evictions # << >>
  /\ \E i \in 1..Len(obs2.sources) : obs2.sources[i] = "lru"
  /\ Len(lru_keys) = LRU_CACHE_SIZE


----------------------------------------------------------------------------
(* A text found in the shared tier only                                    *)

\* the positions of a call whose text missed the LRU and hit the shared tier
SharedHits(call) == { i \in 1..Len(call.sources) : call.sources[i] = "redis" }

SharedHitStep(p) ==
  /\ proc[p].pc = "fase1"
  /\ proc'[p].call.i = proc[p].call.i + 1
  /\ proc'[p].call.sources[proc[p].call.i] = "redis"

----------------------------------------------------------------------------
(* SpecDeps: the service objects of the API process.  The app imports its  *)
(* routers, then requests arrive; a `def` dependency runs in a worker      *)
(* thread, so the dependencies of different requests interleave between    *)
(* the cache lookup of functools.lru_cache and the call it wraps.          *)

NumDepRequests == 2

DepRequests == 1..NumDepRequests

Endpoints == { "search", "search_image", "suggest_questions" }

\* the Depends(...) parameters of an endpoint that build a service
Dependencies(endpoint) ==
  CASE endpoint = "search" -> << "get_search_engine", "get_embedding_system" >>
    [] endpoint = "search_image" -> << "get_search_engine" >>
    [] endpoint = "suggest_questions" -> << >>

DependencyProviders == { "get_search_engine", "get_embedding_system" }

Classes == { "SearchEngine", "AdvancedEmbeddingSystem" }

\* the class a provider function instantiates
ClassOf(provider) ==
  CASE provider = "get_search_engine" -> "SearchEngine"
    [] provider = "get_embedding_system" -> "AdvancedEmbeddingSystem"

NoRequest == [endpoint |-> "", pc |-> "none", k |-> 0, got |-> << >>]

DepsStart ==
  [imported |-> FALSE,
   cache |-> [f \in DependencyProviders |-> 0],
   created |-> [c \in Classes |-> 0],
   req |-> [r \in DepRequests |-> NoRequest]]

DepsInit ==
  /\ payload = PayloadBraces
  /\ on_token_usage = TRUE
  /\ pos = 0
  /\ scan = ScanInit
  /\ gem_pc = "done"
  /\ ChatIdle
  /\ EmbIdle
  /\ SearchIdle
  /\ PureIdle
  /\ LoopIdle
  /\ TiersIdle
  /\ UsageIdle
  /\ agen = << >>
  /\ deps = DepsStart

\* the request goes on to its next dependency, or to the handler
Advance(request_state, instance) ==
  LET more == request_state.k < Len(Dependencies(request_state.endpoint)) IN
  [request_state EXCEPT !.pc = IF more THEN "resolve" ELSE "handler",
                        !.k = IF more THEN @ + 1 ELSE @,
                        !.got = Append(@, instance)]

\* app.main imports the routers; documents.py imports celery_worker, whose
\* module body builds an AdvancedEmbeddingSystem
ImportRouters ==
  /\ ~deps.imported
  /\ deps' = [deps EXCEPT !.imported = TRUE,
                          !.created["AdvancedEmbeddingSystem"] = @ + 1]
  /\ UNCHANGED << gemVars, chatVars, embVars, searchVars, pureVars, loopVars, tierVars, usageVars, cancelVars >>

\* a request for an endpoint arrives
Arrive(r, endpoint) ==
  /\ deps.imported
  /\ deps.req[r].pc = "none"
  /\ deps' = [deps EXCEPT
                !.req[r] = [endpoint |-> endpoint,
                            pc |-> IF Dependencies(endpoint) = << >>
                                   THEN "handler" ELSE "resolve",
                            k |-> IF Dependencies(endpoint) = << >> THEN 0 ELSE 1,
                            got |-> << >>]]
  /\ UNCHANGED << gemVars, chatVars, embVars, searchVars, pureVars, loopVars, tierVars, usageVars, cancelVars >>

\* the lru_cache wrapper looks the call up: a hit returns the cached object,
\* a miss goes on to call the wrapped function
CacheLookupDep(r) ==
  /\ deps.req[r].pc = "resolve"
  /\ LET f == Dependencies(deps.req[r].endpoint)[deps.req[r].k] IN
     deps' = [deps EXCEPT
                !.req[r] = IF deps.cache[f] # 0
                           THEN Advance(@, deps.cache[f])
                           ELSE [@ EXCEPT !.pc = "call"]]
  /\ UNCHANGED << gemVars, chatVars, embVars, searchVars, pureVars, loopVars, tierVars, usageVars, cancelVars >>

\* the wrapped function returns a new instance; the wrapper stores it unless
\* the key was added to the cache in the meantime, and returns it either way
Construct(r) ==
  /\ deps.req[r].pc = "call"
  /\ LET f == Dependencies(deps.req[r].endpoint)[deps.req[r].k]
         instance == deps.created[ClassOf(f)] + 1
     IN deps' = [deps EXCEPT
                   !.created[ClassOf(f)] = instance,
                   !.cache[f] = IF @ = 0 THEN instance ELSE @,
                   !.req[r] = Advance(@, instance)]
  /\ UNCHANGED << gemVars, chatVars, embVars, searchVars, pureVars, loopVars, tierVars, usageVars, cancelVars >>

\* the endpoint function runs; suggest_questions builds its own SearchEngine
\* once it has found content for the selected files
Handler(r, has_content) ==
  /\ deps.req[r].pc = "handler"
  /\ deps' = [deps EXCEPT
                !.created["SearchEngine"] =
                   IF deps.req[r].endpoint = "suggest_questions" /\ has_content
                   THEN @ + 1 ELSE @,
                !.req[r].pc = "done"]
  /\ UNCHANGED << gemVars, chatVars, embVars, searchVars, pureVars, loopVars, tierVars, usageVars, cancelVars >>

DepsNext ==
  \/ ImportRouters
  \/ \E r \in DepRequests, endpoint \in Endpoints : Arrive(r, endpoint)
  \/ \E r \in DepRequests : CacheLookupDep(r)
  \/ \E r \in DepRequests : Construct(r)
  \/ \E r \in DepRequests, has_content \in BOOLEAN : Handler(r, has_content)

SpecDeps == DepsInit /\ [][DepsNext]_vars

\* C37: whatever requests the API process serves and however they
\* interleave, it creates at most one SearchEngine and at most one
\* AdvancedEmbeddingSystem
C37_AtMostOneInstanceEach ==
  /\ deps.created["SearchEngine"] <= 1
  /\ deps.created["AdvancedEmbeddingSystem"] <= 1


----------------------------------------------------------------------------
(* A hybrid search that finds nothing                                      *)

\* C38: when the vector query and the lexical query both return no rows,
\* hybrid_search returns the empty list and the re-ranker is not invoked
C38_NothingFoundNothingRanked ==
  (Returned /\ search_out.semantic_results = << >>
            /\ search_out.keyword_results = << >>) =>
     /\ search_out.results = << >>
     /\ ~search_out.reranked

\* a search engine that has a re-ranker, asked with a filter no chunk passes
C38_Witness ==
  /\ Returned
  /\ search_in.reranker
  /\ search_out.semantic_results = << >>
  /\ search_out.keyword_results = << >>
  /\ search_out.results = << >>


=============================================================================
